---- MODULE Spec2Model ----
(***************************************************************************)
(* Model of the LLM orchestration layer of the Mayhem LLM SDK:             *)
(*   - LLMConnector   (src/sdk/llm-connector.ts)                           *)
(*   - TradingAgent   (src/unnamed/part_001, trading-agent.ts)             *)
(*   - MayhemSDK      (src/unnamed/part_003, mayhem-sdk.ts)                *)
(*   - MarketingAgent (src/README.md, marketing-agent.ts)                  *)
(*                                                                         *)
(* A program creates one agent from its connector (createTradingAgent or   *)
(* createMarketingAgent), or none and calls the connector and the SDK      *)
(* itself, as examples/buyback-burn-bot.ts does.  The agents share no      *)
(* state: decideMarketing neither reads nor writes the history.  The two   *)
(* example scripts (basic-trader.ts in src/unnamed/part_003, and           *)
(* examples/buyback-burn-bot.ts) are programs of their own: their main     *)
(* function, their scheduled jobs and their SIGINT handler drive the SDK   *)
(* and the agent.                                                          *)
(*                                                                         *)
(* JavaScript runs one callback at a time; a callback runs until its next  *)
(* await on the network.  Every action below is one such run: an API call  *)
(* or a timer callback up to its first pending network call, or the        *)
(* resolution of one pending network call followed by the code up to the   *)
(* next one.  Consecutive awaits between which the code touches no state   *)
(* of the agent or the connector are resolved in one step: the two RPC     *)
(* reads of getMarketData, and sendTransaction with its confirmTransaction.*)
(* An invocation of analyzeAndTrade keeps its position and the  *)
(* snapshot price while it is in flight; the decision is used only in the  *)
(* step that receives it, and is recorded in that step's output.           *)
(*                                                                         *)
(* Numbers are scaled to integers: confidence in 1/100, prices in 1e-5 $.  *)
(***************************************************************************)
EXTENDS Integers, Sequences, FiniteSets, Bags, TLC

VARIABLES
    agent,                \* the agent the program created from the connector,
                          \* or the example script the program is
    provider,             \* LLMConnector.config.provider
    conversationHistory,  \* LLMConnector.conversationHistory
    wallet,               \* MayhemSDK.wallet is set
    controllerProgram,    \* MayhemSDK.controllerProgram is set
    isRunning,            \* TradingAgent.isRunning
    config,               \* TradingAgent.config
    buybackConfig,        \* TradingAgent.buybackConfig
    checkInterval,        \* TradingAgent.checkInterval
    timers,               \* the interval timers that are live in the event loop
    ticks,                \* the invocations of analyzeAndTrade in flight (a bag)
    started,              \* number of invocations of analyzeAndTrade so far
    queries,              \* decideMarketing calls whose request is in flight
    decisions,            \* decideTrade calls the program made on the
                          \* connector itself whose request is in flight
    marketingAgent,       \* the fields of the MarketingAgent
    monitors,             \* the live interval timers of the MarketingAgent
    allocs,               \* the invocations of analyzeAndAllocate in flight
    sdkCalls,             \* the direct calls on the MayhemSDK in flight
    optimizing,           \* the optimizeCampaigns calls in flight
    process,              \* the process of an example script: where main is,
                          \* the jobs it scheduled, the exit code
    out                   \* the output of the last step: the reply and the
                          \* decision it received, the calls it made on the
                          \* SDK and the network, the error it raised

vars == <<agent, provider, conversationHistory, wallet, controllerProgram,
          isRunning, config, buybackConfig, checkInterval, timers, ticks,
          started, queries, decisions, marketingAgent, monitors, allocs, sdkCalls, optimizing,
          process, out>>

----------------------------------------------------------------------------
(* Bounds *)

MaxTicks == 2       \* invocations of analyzeAndTrade in one behaviour; a
                    \* program that calls decideTrade itself does so while
                    \* the history has at most 2 * MaxTicks entries
MaxQueries == 1     \* decideMarketing calls in flight at a time

----------------------------------------------------------------------------
(* JavaScript values *)

Undef == [t |-> "undefined"]
Num(n) == [t |-> "number", v |-> n]
Str(s) == [t |-> "string", v |-> s]
Bool(b) == [t |-> "boolean", v |-> b]

\* ToBoolean
Truthy(x) ==
    CASE x.t = "number" -> x.v # 0
      [] x.t = "string" -> x.v # ""
      [] x.t = "boolean" -> x.v
      [] OTHER -> FALSE

\* x > n for a number n: undefined converts to NaN and compares false
JSGreater(x, n) == x.t = "number" /\ x.v > n

----------------------------------------------------------------------------
(* LLMConnector *)

Null == [t |-> "null"]
Obj(fields) == [t |-> "object", f |-> fields]
Arr(elements) == [t |-> "array", v |-> elements]

\* The reply texts a provider may return.
Replies ==
    { "I would hold for now", "null",
      "{\"action\":\"buy\",\"amount\":1,\"reasoning\":\"r\",\"confidence\":0.65}",
      "{\"action\":\"buy\",\"amount\":1,\"reasoning\":\"r\",\"confidence\":0.7}",
      "{\"action\":\"buy\",\"amount\":1,\"reasoning\":\"r\",\"confidence\":0.9}",
      "{\"action\":\"sell\",\"amount\":2,\"reasoning\":\"r\",\"confidence\":1.5}",
      "{\"action\":\"moon\",\"amount\":1,\"reasoning\":\"r\",\"confidence\":-0.2}",
      "{\"action\":\"add_lp\",\"amount\":1,\"reasoning\":\"r\",\"confidence\":0.8}",
      "{\"action\":\"burn\",\"amount\":1,\"reasoning\":\"r\",\"confidence\":0.8}",
      "{\"action\":\"buy\",\"amount\":0,\"reasoning\":\"r\",\"confidence\":0.9}",
      "{\"action\":\"hold\",\"reasoning\":\"r\"}",
      "{\"action\":\"hold\",\"reasoning\":\"r\",\"confidence\":0.9}",
      "{\"action\":\"moon\",\"amount\":1,\"reasoning\":\"r\",\"confidence\":0.9}",
      "{\"action\":\"sell\",\"reasoning\":\"r\",\"confidence\":0.9}" }

\* The reply texts a provider may return to the marketing prompt.
MarketingReplies ==
    { "Spend it all on twitter", "null",
      "{\"allocations\":[{\"platform\":\"twitter\"},{\"platform\":\"discord\"}],\"reasoning\":\"r\"}",
      "{\"allocations\":[{\"platform\":\"twitter\"}],\"reasoning\":\"r\"}",
      "{\"reasoning\":\"r\"}" }

Allocation(platform) == Obj([platform |-> Str(platform)])

SyntaxError == [ok |-> FALSE]
Parsed(v) == [ok |-> TRUE, value |-> v]

Decision(a, m, c) ==
    Obj([action |-> Str(a), amount |-> Num(m), reasoning |-> Str("r"),
         confidence |-> Num(c)])

\* JSON.parse on the reply texts above
JSONParse(text) ==
    CASE text = "null" -> Parsed(Null)
      [] text = "{\"action\":\"buy\",\"amount\":1,\"reasoning\":\"r\",\"confidence\":0.65}" ->
             Parsed(Decision("buy", 1, 65))
      [] text = "{\"action\":\"buy\",\"amount\":1,\"reasoning\":\"r\",\"confidence\":0.7}" ->
             Parsed(Decision("buy", 1, 70))
      [] text = "{\"action\":\"buy\",\"amount\":1,\"reasoning\":\"r\",\"confidence\":0.9}" ->
             Parsed(Decision("buy", 1, 90))
      [] text = "{\"action\":\"sell\",\"amount\":2,\"reasoning\":\"r\",\"confidence\":1.5}" ->
             Parsed(Decision("sell", 2, 150))
      [] text = "{\"action\":\"moon\",\"amount\":1,\"reasoning\":\"r\",\"confidence\":-0.2}" ->
             Parsed(Decision("moon", 1, -20))
      [] text = "{\"action\":\"add_lp\",\"amount\":1,\"reasoning\":\"r\",\"confidence\":0.8}" ->
             Parsed(Decision("add_lp", 1, 80))
      [] text = "{\"action\":\"burn\",\"amount\":1,\"reasoning\":\"r\",\"confidence\":0.8}" ->
             Parsed(Decision("burn", 1, 80))
      [] text = "{\"action\":\"buy\",\"amount\":0,\"reasoning\":\"r\",\"confidence\":0.9}" ->
             Parsed(Decision("buy", 0, 90))
      [] text = "{\"action\":\"hold\",\"reasoning\":\"r\"}" ->
             Parsed(Obj([action |-> Str("hold"), reasoning |-> Str("r")]))
      [] text = "{\"action\":\"hold\",\"reasoning\":\"r\",\"confidence\":0.9}" ->
             Parsed(Obj([action |-> Str("hold"), reasoning |-> Str("r"),
                         confidence |-> Num(90)]))
      [] text = "{\"action\":\"moon\",\"amount\":1,\"reasoning\":\"r\",\"confidence\":0.9}" ->
             Parsed(Decision("moon", 1, 90))
      [] text = "{\"action\":\"sell\",\"reasoning\":\"r\",\"confidence\":0.9}" ->
             Parsed(Obj([action |-> Str("sell"), reasoning |-> Str("r"),
                         confidence |-> Num(90)]))
      [] text = "{\"allocations\":[{\"platform\":\"twitter\"},{\"platform\":\"discord\"}],\"reasoning\":\"r\"}" ->
             Parsed(Obj([allocations |-> Arr(<<Allocation("twitter"),
                                              Allocation("discord")>>),
                         reasoning |-> Str("r")]))
      [] text = "{\"allocations\":[{\"platform\":\"twitter\"}],\"reasoning\":\"r\"}" ->
             Parsed(Obj([allocations |-> Arr(<<Allocation("twitter")>>),
                         reasoning |-> Str("r")]))
      [] text = "{\"reasoning\":\"r\"}" ->
             Parsed(Obj([reasoning |-> Str("r")]))
      [] OTHER -> SyntaxError

ValidJSON(text) == JSONParse(text).ok

\* obj.key for a non-null parsed value
Get(obj, key) == IF key \in DOMAIN obj.f THEN obj.f[key] ELSE Undef

\* a fallback that drops the raw text
Fallback_NoText(response) ==
    [action |-> Str("hold"), amount |-> Undef,
     reasoning |-> Str("Failed to parse response"), confidence |-> Num(50)]

\* the catch branch of parseTradingResponse
Fallback(response) ==
    [action |-> Str("hold"), amount |-> Undef, reasoning |-> Str(response),
     confidence |-> Num(50)]

\* a parser that reads the fields of null as undefined (parsed?.action)
parseTradingResponse_NullChained(response) ==
    LET p == JSONParse(response) IN
    IF ~p.ok
    THEN Fallback(response)
    ELSE IF p.value.t = "null"
    THEN [action |-> Undef, amount |-> Undef, reasoning |-> Undef,
          confidence |-> Undef]
    ELSE [action |-> Get(p.value, "action"),
          amount |-> Get(p.value, "amount"),
          reasoning |-> Get(p.value, "reasoning"),
          confidence |-> Get(p.value, "confidence")]

\* a parser that clamps the confidence to [0,1]
parseTradingResponse_Clamped(response) ==
    LET p == JSONParse(response)
        c == IF p.ok /\ p.value.t # "null"
             THEN Get(p.value, "confidence") ELSE Undef
    IN
    IF ~p.ok \/ p.value.t = "null"
    THEN Fallback(response)
    ELSE [action |-> Get(p.value, "action"),
          amount |-> Get(p.value, "amount"),
          reasoning |-> Get(p.value, "reasoning"),
          confidence |-> IF c.t # "number" THEN c
                         ELSE IF c.v > 100 THEN Num(100)
                         ELSE IF c.v < 0 THEN Num(0) ELSE c]

\* parseTradingResponse: a SyntaxError of JSON.parse and the TypeError of
\* reading a property of null are both thrown inside the try block
parseTradingResponse(response) ==
    LET p == JSONParse(response) IN
    IF ~p.ok \/ p.value.t = "null"
    THEN Fallback(response)
    ELSE [action |-> Get(p.value, "action"),
          amount |-> Get(p.value, "amount"),
          reasoning |-> Get(p.value, "reasoning"),
          confidence |-> Get(p.value, "confidence")]

\* a parser without the fallback: text that is no JSON yields null
parseMarketingResponse_NoFallback(response) ==
    LET p == JSONParse(response) IN
    IF p.ok THEN p.value ELSE Null

\* parseMarketingResponse: the parsed value as it is, or the fallback
parseMarketingResponse(response) ==
    LET p == JSONParse(response) IN
    IF p.ok THEN p.value
    ELSE Obj([allocations |-> Arr(<<>>), reasoning |-> Str(response)])

Providers == {"openrouter", "eliza", "openai", "anthropic", "custom"}

\* a provider value the LLMConfig type does not allow
OtherProviders == {"gemini"}

\* a switch whose default case falls through to the custom endpoint
SupportedProvider_FallsThrough(p) == TRUE

\* the switch of queryLLM: TRUE when a case issues a request, FALSE for default
SupportedProvider(p) ==
    CASE p = "openrouter" -> TRUE
      [] p = "eliza" -> TRUE
      [] p = "openai" -> TRUE
      [] p = "anthropic" -> TRUE
      [] p = "custom" -> TRUE
      [] OTHER -> FALSE

Nil == <<>>
Some(x) == <<x>>

\* the entry the constructor pushes: config.systemPrompt or the default one
SystemMessage == [role |-> "system", content |-> "systemPrompt"]

\* the entry decideTrade pushes before its request
UserMessage(prompt) == [role |-> "user", content |-> prompt]

\* the entry decideTrade pushes after its request: JSON.stringify(response)
AssistantMessage == [role |-> "assistant", content |-> "response"]

TradingPrompt == "tradingPrompt"       \* buildTradingPrompt(marketData)
MarketingPrompt == "marketingPrompt"   \* buildMarketingPrompt(platformMetrics)

\* a queryLLM that posts the history whatever prompt it is given
Messages_History(customPrompt, history) == history

\* the messages queryLLM hands to the provider's adapter: the custom prompt
\* alone if one is given, the conversation history otherwise
Messages(customPrompt, history) ==
    IF customPrompt # Nil THEN <<UserMessage(customPrompt[1])>> ELSE history

\* messages.filter(m => m.role !== 'system')
NonSystem(messages) ==
    SelectSeq(messages, LAMBDA m : m.role # "system")

\* messages.find(m => m.role === 'system')?.content
FirstSystemContent(messages) ==
    IF \E k \in 1..Len(messages) : messages[k].role = "system"
    THEN Str(messages[CHOOSE k \in 1..Len(messages) :
                          /\ messages[k].role = "system"
                          /\ \A j \in 1..(k - 1) :
                                 messages[j].role # "system"].content)
    ELSE Undef

\* a queryAnthropic that sends the messages as the other adapters do
queryAnthropic_Unfiltered(messages) ==
    [endpoint |-> "anthropic", messages |-> messages]

\* the body queryAnthropic posts: JSON.stringify leaves out a system field
\* whose value is undefined
queryAnthropic(messages) ==
    IF FirstSystemContent(messages) = Undef
    THEN [endpoint |-> "anthropic", messages |-> NonSystem(messages)]
    ELSE [endpoint |-> "anthropic", messages |-> NonSystem(messages),
          system |-> FirstSystemContent(messages)]

\* the body the adapter of provider p posts to its endpoint (the model, the
\* agent id and max_tokens are fixed by the configuration)
Request(p, messages) ==
    IF p = "anthropic" THEN queryAnthropic(messages)
    ELSE [endpoint |-> p, messages |-> messages]

----------------------------------------------------------------------------
(* MayhemSDK *)

MockPrice == 10         \* getTokenPrice: 0.0001
CollectedFees == 0      \* collectFees: return 0

\* the catch of analyzeAndTrade: the invocation ends at the first throw
Throw(tk, msg) == [tk EXCEPT !.pc = "done", !.op = "none", !.error = msg]

\* the invocation returns normally
Finish(tk) == [tk EXCEPT !.pc = "done", !.op = "none"]

Called(tk, name) == [tk EXCEPT !.calls = Append(@, name)]

Has(calls, name) == \E k \in 1..Len(calls) : calls[k] = name

\* connection.sendTransaction is called for the SDK operation op
SendTransaction(tk, op) ==
    [Called(tk, "sendTransaction") EXCEPT !.pc = "tx", !.op = op]

\* a trade that refuses to run while a transaction of an invocation is pending
trade_Locked(tk, side, op) ==
    IF ~wallet
    THEN Throw(Called(tk, side), "Wallet not initialized")
    ELSE IF \E v \in BagToSet(ticks) : v.pc = "tx"
    THEN Throw(Called(tk, side), "Wallet busy")
    ELSE SendTransaction(Called(tk, side), op)

\* MayhemSDK.trade, up to its sendTransaction
trade(tk, side, op) ==
    IF ~wallet
    THEN Throw(Called(tk, side), "Wallet not initialized")
    ELSE SendTransaction(Called(tk, side), op)

\* MayhemSDK.addLiquidityFromFees, up to its sendTransaction
addLiquidityFromFees(tk) ==
    IF ~controllerProgram
    THEN Throw(Called(tk, "addLiquidityFromFees"),
               "Controller program not configured")
    ELSE SendTransaction(Called(tk, "addLiquidityFromFees"), "addLiquidity")

\* collectFees without its check
collectFees_Unchecked(tk) ==
    SendTransaction(Called(tk, "collectFees"), "collectFees")

\* MayhemSDK.collectFees, up to its sendTransaction
collectFees(tk) ==
    IF ~controllerProgram
    THEN Throw(Called(tk, "collectFees"), "Controller program not configured")
    ELSE SendTransaction(Called(tk, "collectFees"), "collectFees")

\* MayhemSDK.buybackAndBurn, up to the sendTransaction of its trade
buybackAndBurn(tk) ==
    IF ~wallet
    THEN Throw(Called(tk, "buybackAndBurn"), "Wallet not initialized")
    ELSE IF ~controllerProgram
    THEN Throw(Called(tk, "buybackAndBurn"),
               "Controller program not configured")
    ELSE trade(Called(tk, "buybackAndBurn"), "trade:buy", "buyback")

\* the signature sendTransaction returns for the transaction of an operation
Signature(op) == [signature |-> op]

BuybackParams ==
    [solAmount : {1, 2}, burnPercentage : {0, 50}]

\* the TradeParams buybackAndBurn passes to trade
BuybackTrade(params) == [side |-> "buy", amount |-> params.solAmount]

\* buybackAndBurn with a burn transaction after its trade
AfterBuybackTrade_Burns(tk, burnPercentage) ==
    IF burnPercentage > 0
    THEN SendTransaction(Called(tk, "burn"), "burn")
    ELSE Finish(tk)

\* buybackAndBurn after its trade has returned: the burn is only logged
AfterBuybackTrade(tk, burnPercentage) == Finish(tk)

----------------------------------------------------------------------------
(* TradingAgent *)

ConfidenceThreshold == 70   \* decision.confidence > 0.7

NoTimer == 0

Configs ==
    { [tokenMint |-> "MintA", strategy |-> "dca", maxRisk |-> 2],
      [tokenMint |-> "MintB", strategy |-> "momentum", maxRisk |-> 5] }

\* the arguments of enableBuybackBurn: the trigger price at the snapshot
\* price, above it, 0 and left out; enabled true, false and left out
BuybackConfigs ==
    { [enabled |-> Bool(TRUE), triggerPrice |-> Num(10), burnPercentage |-> 50],
      [enabled |-> Bool(TRUE), triggerPrice |-> Num(11), burnPercentage |-> 50],
      [enabled |-> Bool(TRUE), triggerPrice |-> Num(0), burnPercentage |-> 50],
      [enabled |-> Bool(TRUE), triggerPrice |-> Undef, burnPercentage |-> 50],
      [enabled |-> Bool(FALSE), triggerPrice |-> Num(11), burnPercentage |-> 0],
      [enabled |-> Undef, triggerPrice |-> Num(11), burnPercentage |-> 50] }

\* checkBuyback with <= in place of <
checkBuyback_AtOrBelow(tk) ==
    IF buybackConfig = Nil \/ config = Nil
    THEN Finish(tk)
    ELSE LET shouldBuyback ==
                 /\ Truthy(buybackConfig[1].triggerPrice)
                 /\ tk.price <= buybackConfig[1].triggerPrice.v
         IN IF shouldBuyback THEN collectFees(tk) ELSE Finish(tk)

\* checkBuyback with the comparison reversed
checkBuyback_Reversed(tk) ==
    IF buybackConfig = Nil \/ config = Nil
    THEN Finish(tk)
    ELSE LET shouldBuyback ==
                 /\ Truthy(buybackConfig[1].triggerPrice)
                 /\ tk.price > buybackConfig[1].triggerPrice.v
         IN IF shouldBuyback THEN collectFees(tk) ELSE Finish(tk)

\* checkBuyback
checkBuyback(tk) ==
    IF buybackConfig = Nil \/ config = Nil
    THEN Finish(tk)
    ELSE LET shouldBuyback ==
                 /\ Truthy(buybackConfig[1].triggerPrice)
                 /\ tk.price < buybackConfig[1].triggerPrice.v
         IN IF shouldBuyback THEN collectFees(tk) ELSE Finish(tk)

\* a checkBuyback that buys back whatever amount was collected
AfterCollectFees_AnyAmount(tk, feeAmount) ==
    IF feeAmount >= 0 THEN buybackAndBurn(tk) ELSE Finish(tk)

\* checkBuyback after collectFees has returned feeAmount
AfterCollectFees(tk, feeAmount) ==
    IF feeAmount > 0 THEN buybackAndBurn(tk) ELSE Finish(tk)

\* a buyback check that runs for every stored configuration
BuybackStep_Configured(tk) ==
    IF buybackConfig # Nil THEN checkBuyback(tk) ELSE Finish(tk)

\* analyzeAndTrade from "Check buyback conditions" on
BuybackStep(tk) ==
    IF buybackConfig # Nil /\ Truthy(buybackConfig[1].enabled)
    THEN checkBuyback(tk)
    ELSE Finish(tk)

\* the arguments of the SDK call made for the decision
WithArgs(tk, args) == [tk EXCEPT !.args = Some(args)]

\* the arguments of sdk.trade in executeBuy; the slippage in 1/100
executeBuy(amount) == [side |-> "buy", amount |-> amount, slippage |-> 1]

\* the arguments of sdk.trade in executeSell
executeSell(amount) == [side |-> "sell", amount |-> amount, slippage |-> 1]

\* an executeDecision that is not awaited: analyzeAndTrade goes on to the
\* buyback check while the transaction is pending
executeDecision_NotAwaited(tk, decision) ==
    IF config = Nil THEN BuybackStep(tk)
    ELSE CASE decision.action = Str("buy") /\ Truthy(decision.amount) ->
                  BuybackStep(trade(tk, "trade:buy", "trade"))
           [] decision.action = Str("sell") /\ Truthy(decision.amount) ->
                  BuybackStep(trade(tk, "trade:sell", "trade"))
           [] decision.action = Str("burn") /\ Truthy(decision.amount) ->
                  BuybackStep(Called(tk, "executeBurn"))
           [] decision.action = Str("add_lp") /\ Truthy(decision.amount) ->
                  BuybackStep(addLiquidityFromFees(tk))
           [] OTHER -> BuybackStep(tk)

\* an executeDecision that does not look at the amount
executeDecision_AmountUnchecked(tk, decision) ==
    LET amount == IF decision.amount.t = "number" THEN decision.amount.v
                  ELSE 0
    IN
    IF config = Nil THEN BuybackStep(tk)
    ELSE CASE decision.action = Str("buy") ->
                  trade(WithArgs(tk, executeBuy(amount)), "trade:buy", "trade")
           [] decision.action = Str("sell") ->
                  trade(WithArgs(tk, executeSell(amount)), "trade:sell",
                        "trade")
           [] decision.action = Str("burn") ->
                  BuybackStep(Called(tk, "executeBurn"))
           [] decision.action = Str("add_lp") ->
                  addLiquidityFromFees(WithArgs(tk, [amount |-> amount]))
           [] OTHER -> BuybackStep(tk)

\* executeDecision and, when it returns without awaiting the network, the
\* rest of analyzeAndTrade
executeDecision(tk, decision) ==
    IF config = Nil THEN BuybackStep(tk)
    ELSE CASE decision.action = Str("buy") /\ Truthy(decision.amount) ->
                  trade(WithArgs(tk, executeBuy(decision.amount.v)),
                        "trade:buy", "trade")
           [] decision.action = Str("sell") /\ Truthy(decision.amount) ->
                  trade(WithArgs(tk, executeSell(decision.amount.v)),
                        "trade:sell", "trade")
           [] decision.action = Str("burn") /\ Truthy(decision.amount) ->
                  BuybackStep(Called(tk, "executeBurn"))
           [] decision.action = Str("add_lp") /\ Truthy(decision.amount) ->
                  addLiquidityFromFees(
                      WithArgs(tk, [amount |-> decision.amount.v]))
           [] OTHER -> BuybackStep(tk)

\* the gate with >= in place of >
ConfidenceGate_Inclusive(decision) ==
    decision.confidence.t = "number"
    /\ decision.confidence.v >= ConfidenceThreshold

\* decision.confidence > 0.7
ConfidenceGate(decision) == JSGreater(decision.confidence, ConfidenceThreshold)

\* analyzeAndTrade from the return of decideTrade on
AfterDecision(tk, decision) ==
    IF ConfidenceGate(decision)
    THEN executeDecision(tk, decision)
    ELSE BuybackStep(tk)

\* analyzeAndTrade with a guard against an invocation in flight
analyzeAndTrade_Serialized(cfg) ==
    LET tk == [pc |-> "done", op |-> "none", price |-> -1,
               calls |-> <<>>, args |-> Nil, request |-> Nil,
               error |-> "none"]
    IN IF cfg = Nil \/ ticks # EmptyBag THEN tk
       ELSE [Called(tk, "getTokenInfo") EXCEPT !.pc = "marketData"]

\* analyzeAndTrade up to the first await of getMarketData
analyzeAndTrade(cfg) ==
    LET tk == [pc |-> "done", op |-> "none", price |-> -1,
               calls |-> <<>>, args |-> Nil, request |-> Nil,
               error |-> "none"]
    IN IF cfg = Nil THEN tk
       ELSE [Called(tk, "getTokenInfo") EXCEPT !.pc = "marketData"]

\* startTrading without its guard
AlreadyRunning_Unguarded == FALSE

\* the guard of startTrading
AlreadyRunning == isRunning

\* a clearInterval that leaves the timer live
clearInterval_Leaks(handle) == timers

\* clearInterval
clearInterval(handle) == timers \ {handle}

\* setInterval returns a handle that no live timer has
setInterval ==
    CHOOSE h \in 1..(Cardinality(timers) + 1) : h \notin timers

InFlight(tk) == tk.pc # "done"

\* a catch block that throws the error on
Catch_Rethrows(tk) == tk.error

\* the catch block of analyzeAndTrade logs the error: what the invocation
\* throws to its caller
Catch(tk) == "none"

\* a queryLLM that issues its request a second time
queryLLM_Twice(tk, messages) ==
    IF SupportedProvider(provider)
    THEN [Called(Called(tk, "fetch"), "fetch") EXCEPT
              !.pc = "llm", !.request = Some(Request(provider, messages))]
    ELSE Throw(tk, "Unsupported provider")

\* queryLLM for the prompt of an invocation: the adapter of the provider
\* posts the messages, or the default case throws
queryLLM(tk, messages) ==
    IF SupportedProvider(provider)
    THEN [Called(tk, "fetch") EXCEPT
              !.pc = "llm", !.request = Some(Request(provider, messages))]
    ELSE Throw(tk, "Unsupported provider")

----------------------------------------------------------------------------
(* MarketingAgent *)

MarketingConfigs ==
    { [totalBudget |-> 1000, platforms |-> <<"twitter", "discord">>,
       minROI |-> 2, rebalanceInterval |-> 24],
      [totalBudget |-> 500, platforms |-> <<"twitter">>,
       minROI |-> 3, rebalanceInterval |-> 1] }

\* the request executeAllocation sends for an allocation entry
PostAllocate(allocation) ==
    CASE Get(allocation, "platform") = Str("twitter") -> "POST allocate twitter"
      [] Get(allocation, "platform") = Str("discord") -> "POST allocate discord"
      [] OTHER -> "POST allocate"

\* the body executeAllocation posts: the allocation entry
AllocateBody(allocation) == [endpoint |-> "allocate", allocation |-> allocation]

\* the body trackPerformance posts: the time and the list it was given
TrackBody(allocations) == [endpoint |-> "track", allocations |-> allocations]

\* a loop that stops one entry short
AllocationLoop_SkipsLast(tk) ==
    IF tk.i < Len(tk.allocations)
    THEN [Called(tk, PostAllocate(tk.allocations[tk.i])) EXCEPT !.pc = "allocate"]
    ELSE [Called(tk, "POST track") EXCEPT !.pc = "track"]

\* the rest of analyzeAndAllocate from the entry i of decision.allocations
\* on: executeAllocation for that entry, or trackPerformance after the last
AllocationLoop(tk) ==
    IF tk.i <= Len(tk.allocations)
    THEN [Called(tk, PostAllocate(tk.allocations[tk.i])) EXCEPT
              !.pc = "allocate",
              !.request = Some(AllocateBody(tk.allocations[tk.i]))]
    ELSE [Called(tk, "POST track") EXCEPT
              !.pc = "track", !.request = Some(TrackBody(tk.allocations))]

\* analyzeAndAllocate from the return of decideMarketing on: reading
\* decision.reasoning of null and iterating allocations that are no array
\* throw a TypeError
AfterMarketingDecision(tk, decision) ==
    IF decision.t # "object"
    THEN Throw(tk, "TypeError")
    ELSE IF Get(decision, "allocations").t # "array"
    THEN Throw(tk, "TypeError")
    ELSE AllocationLoop([tk EXCEPT !.allocations =
                                       Get(decision, "allocations").v,
                                   !.i = 1])

\* analyzeAndAllocate up to the await in fetchPlatformMetrics
analyzeAndAllocate(cfg) ==
    LET tk == [pc |-> "done", op |-> "none", allocations |-> <<>>, i |-> 0,
               calls |-> <<>>, request |-> Nil, error |-> "none"]
    IN IF cfg = Nil THEN tk
       ELSE [Called(tk, "GET metrics") EXCEPT !.pc = "metrics"]

\* startMarketing without its guard
MarketingAlreadyRunning_Unguarded == FALSE

\* the guard of startMarketing
MarketingAlreadyRunning == marketingAgent.isRunning

\* the catch block of analyzeAndAllocate logs the error
CatchMarketing(tk) == "none"

----------------------------------------------------------------------------
(* Initial state: a connector, an SDK and an agent, just constructed *)

\* the example scripts
Scripts == {"basic-trader", "buyback-burn-bot"}

\* no script: the program calls the agent, the connector and the SDK freely
NoProcess == [pc |-> "none", exitCode |-> -1, jobs |-> {}, awaits |-> Nil]

\* main of a script up to its await of sdk.initialize()
Main == [pc |-> "initialize", exitCode |-> -1, jobs |-> {}, awaits |-> Nil]

\* the configuration basic-trader starts the agent with
BasicTraderConfig == [tokenMint |-> "MintA", strategy |-> "dca", maxRisk |-> 2]

\* the configuration buyback-burn-bot enables
BuybackBotConfig ==
    [enabled |-> Bool(TRUE), triggerPrice |-> Num(10), burnPercentage |-> 50]

\* basic-trader after its await of startTrading: the status interval is set
\* and the SIGINT handler registered
StartTradingReturned(p) ==
    [p EXCEPT !.pc = "running", !.awaits = Nil, !.jobs = @ \cup {"status"}]

\* main of basic-trader has called startTrading, whose initial invocation
\* of analyzeAndTrade has run to tk
AwaitStartTrading(p, tk) ==
    IF InFlight(tk) THEN [p EXCEPT !.pc = "startTrading",
                                   !.awaits = Some([pc |-> tk.pc, op |-> tk.op,
                                                    price |-> tk.price])]
    ELSE StartTradingReturned(p)

\* the exit code after main has failed: basic-trader calls process.exit(1);
\* buyback-burn-bot logs the error, and the process ends with nothing left
\* to run
MainFailed(script) == IF script = "basic-trader" THEN 1 ELSE 0

\* the process has exited with the code
Exited(code) == [pc |-> "exited", exitCode |-> code, jobs |-> {}, awaits |-> Nil]

\* the constructor arguments. A TradingAgent: the provider of the examples
\* with every SDK configuration, and a provider queryLLM has no case for. A
\* MarketingAgent: the same two providers. A program that calls the
\* connector and the SDK itself: every provider, and the provider of the
\* examples with every SDK configuration. The example scripts: their
\* provider and wallet, the controller program id set or left out. A
\* program that uses the connector alone and calls decideTrade and
\* decideMarketing on it: every provider.
Deployments ==
    [agent : {"TradingAgent"}, provider : {"openrouter"} \cup OtherProviders,
     wallet : {TRUE}, controllerProgram : {TRUE}]
    \cup [agent : {"TradingAgent"}, provider : {"openrouter"},
          wallet : BOOLEAN, controllerProgram : BOOLEAN]
    \cup [agent : {"MarketingAgent"}, provider : {"openrouter", "gemini"},
          wallet : {TRUE}, controllerProgram : {TRUE}]
    \cup [agent : {"none"}, provider : Providers \cup OtherProviders,
          wallet : {TRUE}, controllerProgram : {TRUE}]
    \cup [agent : {"none"}, provider : {"openrouter"},
          wallet : BOOLEAN, controllerProgram : BOOLEAN]
    \cup [agent : Scripts, provider : {"openrouter"},
          wallet : {TRUE}, controllerProgram : BOOLEAN]
    \cup [agent : {"connector"}, provider : Providers \cup OtherProviders,
          wallet : {TRUE}, controllerProgram : {TRUE}]

\* the output of a step: the action; the reply text and the decision that
\* decideTrade returned, if the step received one; the calls made, the
\* arguments of the SDK call that executes the decision, and the error
\* raised; where the invocation is after the step
Output(op, reply, decision, tk) ==
    [op |-> op, reply |-> reply, decision |-> decision, calls |-> tk.calls,
     args |-> tk.args, request |-> tk.request, error |-> tk.error,
     thrown |-> Catch(tk), pc |-> tk.pc]

\* the output of a call that is no invocation of analyzeAndTrade
CallOutput(op, calls, error) ==
    [op |-> op, reply |-> Nil, decision |-> Nil, calls |-> calls,
     error |-> error, thrown |-> error, pc |-> "none"]

\* an invocation as it waits in flight: the calls and the error of a step are
\* its output
Waiting(tk) == [pc |-> tk.pc, op |-> tk.op, price |-> tk.price]

Running(w) == [pc |-> w.pc, op |-> w.op, price |-> w.price,
               calls |-> <<>>, args |-> Nil, request |-> Nil,
               error |-> "none"]

\* a new invocation has run to tk
Began(name, tk) ==
    /\ out' = Output(name, Nil, Nil, tk)
    /\ started' = started + 1
    /\ ticks' = IF InFlight(tk) THEN ticks (+) SetToBag({Waiting(tk)})
                ELSE ticks
    /\ process' = IF process.pc = "initialize"
                  THEN AwaitStartTrading(process, tk)
                  ELSE process

\* the invocation that waited as w has run to tk
Ran(name, reply, decision, w, tk) ==
    /\ out' = Output(name, reply, decision, tk)
    /\ started' = started
    /\ ticks' = IF InFlight(tk)
                THEN (ticks (-) SetToBag({w})) (+) SetToBag({Waiting(tk)})
                ELSE ticks (-) SetToBag({w})
    /\ \E initial \in IF process.awaits # Some(w) THEN {FALSE}
                       ELSE IF CopiesIn(w, ticks) > 1 THEN BOOLEAN
                       ELSE {TRUE} :
           process' = IF initial THEN AwaitStartTrading(process, tk)
                      ELSE process

Init ==
    /\ \E d \in Deployments :
           /\ agent = d.agent
           /\ provider = d.provider
           /\ wallet = d.wallet
           /\ controllerProgram = d.controllerProgram
    /\ conversationHistory = <<SystemMessage>>
    /\ isRunning = FALSE
    /\ config = Nil
    /\ buybackConfig = Nil
    /\ checkInterval = NoTimer
    /\ timers = {}
    /\ ticks = EmptyBag
    /\ started = 0
    /\ queries = 0
    /\ decisions = 0
    /\ marketingAgent = [config |-> Nil, isRunning |-> FALSE,
                         monitorInterval |-> NoTimer]
    /\ monitors = {}
    /\ allocs = EmptyBag
    /\ sdkCalls = EmptyBag
    /\ optimizing = EmptyBag
    /\ process = IF agent \in Scripts THEN Main ELSE NoProcess
    /\ out = CallOutput("new", <<>>, "none")

----------------------------------------------------------------------------
(* Public calls on the TradingAgent *)

\* a startTrading that stores the configuration before its guard
StartTrading_AssignsFirst(c) ==
    /\ config' = Some(c)
    /\ IF AlreadyRunning
       THEN /\ out' = CallOutput("startTrading", <<>>,
                                 "Agent already running")
            /\ UNCHANGED <<isRunning, checkInterval, timers, ticks, started,
                           process>>
       ELSE /\ started < MaxTicks
            /\ isRunning' = TRUE
            /\ checkInterval' = setInterval
            /\ timers' = timers \cup {setInterval}
            /\ Began("startTrading", analyzeAndTrade(Some(c)))
    /\ UNCHANGED <<agent, marketingAgent, monitors, allocs, sdkCalls, optimizing>>
    /\ UNCHANGED <<provider, conversationHistory, wallet, controllerProgram,
                   buybackConfig, queries, decisions>>

StartTrading(c) ==
    /\ IF AlreadyRunning
       THEN /\ out' = CallOutput("startTrading", <<>>,
                                 "Agent already running")
            /\ UNCHANGED <<config, isRunning, checkInterval, timers, ticks,
                           started, process>>
       ELSE /\ started < MaxTicks
            /\ config' = Some(c)
            /\ isRunning' = TRUE
            /\ checkInterval' = setInterval
            /\ timers' = timers \cup {setInterval}
            /\ Began("startTrading", analyzeAndTrade(Some(c)))
    /\ UNCHANGED <<agent, marketingAgent, monitors, allocs, sdkCalls, optimizing>>
    /\ UNCHANGED <<provider, conversationHistory, wallet, controllerProgram,
                   buybackConfig, queries, decisions>>

\* a stopTrading that resets the agent and drops the invocations in flight
StopTrading_Resets ==
    /\ timers' = IF checkInterval # NoTimer
                 THEN clearInterval(checkInterval)
                 ELSE timers
    /\ checkInterval' = NoTimer
    /\ isRunning' = FALSE
    /\ buybackConfig' = Nil
    /\ ticks' = EmptyBag
    /\ out' = CallOutput("stopTrading", <<>>, "none")
    /\ UNCHANGED <<agent, marketingAgent, monitors, allocs, sdkCalls, optimizing, process>>
    /\ UNCHANGED <<provider, conversationHistory, wallet, controllerProgram,
                   config, started, queries, decisions>>

StopTrading ==
    /\ timers' = IF checkInterval # NoTimer
                 THEN clearInterval(checkInterval)
                 ELSE timers
    /\ checkInterval' = NoTimer
    /\ isRunning' = FALSE
    /\ out' = CallOutput("stopTrading", <<>>, "none")
    /\ UNCHANGED <<agent, marketingAgent, monitors, allocs, sdkCalls, optimizing, process>>
    /\ UNCHANGED <<provider, conversationHistory, wallet, controllerProgram,
                   config, buybackConfig, ticks, started, queries, decisions>>

EnableBuybackBurn(b) ==
    /\ buybackConfig' = Some(b)
    /\ out' = CallOutput("enableBuybackBurn", <<>>, "none")
    /\ UNCHANGED <<agent, marketingAgent, monitors, allocs, sdkCalls, optimizing, process>>
    /\ UNCHANGED <<provider, conversationHistory, wallet, controllerProgram,
                   isRunning, config, checkInterval, timers, ticks,
                   started, queries, decisions>>

\* getStatus returns the flag, the stored configuration and whether a
\* buyback configuration is enabled
GetStatus ==
    /\ out' = [op |-> "getStatus", reply |-> Nil, decision |-> Nil,
               calls |-> <<>>, error |-> "none", thrown |-> "none",
               pc |-> "none",
               result |-> [isRunning |-> isRunning, config |-> config,
                           buybackEnabled |->
                               IF buybackConfig = Nil THEN FALSE
                               ELSE Truthy(buybackConfig[1].enabled)]]
    /\ UNCHANGED <<agent, marketingAgent, monitors, allocs, sdkCalls, optimizing, process>>
    /\ UNCHANGED <<provider, conversationHistory, wallet, controllerProgram,
                   isRunning, config, buybackConfig, checkInterval, timers,
                   ticks, started, queries, decisions>>

----------------------------------------------------------------------------
(* The interval timer and the steps of one invocation of analyzeAndTrade *)

\* the callback of setInterval
TimerFire(tm) ==
    /\ tm \in timers
    /\ started < MaxTicks
    /\ Began("timer", analyzeAndTrade(config))
    /\ UNCHANGED <<agent, marketingAgent, monitors, allocs, sdkCalls, optimizing>>
    /\ UNCHANGED <<provider, conversationHistory, wallet, controllerProgram,
                   isRunning, config, buybackConfig, checkInterval, timers, queries, decisions>>

AgentUnchanged ==
    UNCHANGED <<agent, marketingAgent, monitors, allocs, sdkCalls, optimizing, provider,
                wallet, controllerProgram, isRunning, config, buybackConfig,
                checkInterval, timers, queries, decisions>>

\* the RPC reads of getMarketData (getParsedAccountInfo in getTokenInfo, then
\* getSignaturesForAddress in getVolume24h) resolve, or one of them fails;
\* getMarketData returns; decideTrade pushes the prompt and calls queryLLM
MarketDataResolves(w, ok) ==
    /\ w.pc = "marketData"
    /\ IF ok
       THEN /\ conversationHistory' =
                   Append(conversationHistory, UserMessage(TradingPrompt))
            /\ Ran("marketData", Nil, Nil, w,
                   queryLLM(Called([Running(w) EXCEPT !.price = MockPrice],
                                   "decideTrade"),
                            Messages(Nil, conversationHistory')))
       ELSE /\ Ran("marketData", Nil, Nil, w, Throw(Running(w), "RPC error"))
            /\ UNCHANGED conversationHistory
    /\ AgentUnchanged

\* a decideTrade that starts the history afresh for every reply
LLMReplies_Resets(w, text) ==
    /\ w.pc = "llm"
    /\ conversationHistory' = <<SystemMessage, AssistantMessage>>
    /\ Ran("llm", Some(text), Some(parseTradingResponse(text)), w,
           AfterDecision(Running(w), parseTradingResponse(text)))
    /\ AgentUnchanged

\* the provider replies with text; decideTrade pushes the reply and parses
\* it; analyzeAndTrade runs on to its next await or to its end
LLMReplies(w, text) ==
    /\ w.pc = "llm"
    /\ conversationHistory' =
           Append(conversationHistory, AssistantMessage)
    /\ Ran("llm", Some(text), Some(parseTradingResponse(text)), w,
           AfterDecision(Running(w), parseTradingResponse(text)))
    /\ AgentUnchanged

\* a failed request that pauses the loop
LLMFails_Pauses(w) ==
    /\ w.pc = "llm"
    /\ Ran("llm", Nil, Nil, w, Throw(Running(w), "LLM request failed"))
    /\ isRunning' = FALSE
    /\ timers' = clearInterval(checkInterval)
    /\ checkInterval' = NoTimer
    /\ UNCHANGED <<agent, marketingAgent, monitors, allocs, sdkCalls, optimizing, provider,
                   conversationHistory, wallet, controllerProgram, config,
                   buybackConfig, queries, decisions>>

\* the request fails, or the response body has not the provider's shape
LLMFails(w) ==
    /\ w.pc = "llm"
    /\ Ran("llm", Nil, Nil, w, Throw(Running(w), "LLM request failed"))
    /\ UNCHANGED conversationHistory
    /\ AgentUnchanged

\* a failed transaction whose error is logged where it was sent:
\* analyzeAndTrade goes on to the buyback check
TransactionResolves_Continues(w, ok) ==
    /\ w.pc = "tx"
    /\ ok => wallet
    /\ Ran(w.op, Nil, Nil, w,
           CASE w.op \in {"trade", "addLiquidity"} ->
                    BuybackStep([Running(w) EXCEPT
                                     !.error = IF ok THEN "none"
                                               ELSE "Transaction failed"])
             [] ~ok -> Throw(Running(w), "Transaction failed")
             [] w.op = "collectFees" ->
                    AfterCollectFees(Running(w), CollectedFees)
             [] OTHER -> Finish(Running(w)))
    /\ UNCHANGED conversationHistory
    /\ AgentUnchanged

\* sendTransaction and confirmTransaction resolve, or one of them fails (a
\* transaction cannot be signed without a wallet); the SDK operation returns
\* and analyzeAndTrade runs on to its next await or to its end
TransactionResolves(w, ok) ==
    /\ w.pc = "tx"
    /\ ok => wallet
    /\ Ran(w.op, Nil, Nil, w,
           IF ~ok THEN Throw(Running(w), "Transaction failed")
           ELSE CASE w.op = "trade" -> BuybackStep(Running(w))
                  [] w.op = "addLiquidity" -> BuybackStep(Running(w))
                  [] w.op = "collectFees" ->
                         AfterCollectFees(Running(w), CollectedFees)
                  [] OTHER -> Finish(Running(w)))
    /\ UNCHANGED conversationHistory
    /\ AgentUnchanged

----------------------------------------------------------------------------
(* Public calls on the LLMConnector *)

\* the output of a call the program makes on the connector: the body posted,
\* if a request was issued; the reply and what the call returned, if it did
QueryOutput(op, calls, error, request, reply, decision) ==
    [op |-> op, reply |-> reply, decision |-> decision, calls |-> calls,
     request |-> request, error |-> error, thrown |-> error, pc |-> "none"]

\* the connector, but for the history and the request this call changes
ConnectorUnchanged ==
    UNCHANGED <<agent, provider, wallet, controllerProgram, isRunning, config,
                buybackConfig, checkInterval, timers, ticks, started, queries,
                marketingAgent, monitors, allocs, sdkCalls, optimizing, process>>

\* decideTrade, called on the connector, up to the await in queryLLM(): the
\* prompt is pushed, then the history is posted or the default case throws
DecideTrade ==
    /\ decisions < MaxQueries
    /\ Len(conversationHistory) < 2 * MaxTicks + 1
    /\ conversationHistory' =
           Append(conversationHistory, UserMessage(TradingPrompt))
    /\ IF SupportedProvider(provider)
       THEN /\ decisions' = decisions + 1
            /\ out' = QueryOutput("decideTrade", <<"fetch">>, "none",
                                  Some(Request(provider,
                                               Messages(Nil,
                                                        conversationHistory'))),
                                  Nil, Nil)
       ELSE /\ out' = QueryOutput("decideTrade", <<>>,
                                  "Unsupported provider", Nil, Nil, Nil)
            /\ UNCHANGED decisions
    /\ ConnectorUnchanged

\* the provider replies to a decideTrade call: the reply is pushed and parsed
DecideTradeReplies(text) ==
    /\ decisions > 0
    /\ decisions' = decisions - 1
    /\ conversationHistory' = Append(conversationHistory, AssistantMessage)
    /\ out' = QueryOutput("tradeReply", <<>>, "none", Nil, Some(text),
                          Some(parseTradingResponse(text)))
    /\ ConnectorUnchanged

\* the request of a decideTrade call fails, or the response body has not the
\* provider's shape: decideTrade throws at the await
DecideTradeFails ==
    /\ decisions > 0
    /\ decisions' = decisions - 1
    /\ out' = QueryOutput("tradeReply", <<>>, "LLM request failed", Nil, Nil,
                          Nil)
    /\ UNCHANGED conversationHistory
    /\ ConnectorUnchanged

\* decideMarketing up to the await in queryLLM(prompt): the history is not
\* touched
DecideMarketing ==
    /\ queries < MaxQueries
    /\ IF SupportedProvider(provider)
       THEN /\ queries' = queries + 1
            /\ out' = QueryOutput("decideMarketing", <<"fetch">>, "none",
                                  Some(Request(provider,
                                               Messages(Some(MarketingPrompt),
                                                        conversationHistory))),
                                  Nil, Nil)
       ELSE /\ out' = QueryOutput("decideMarketing", <<>>,
                                  "Unsupported provider", Nil, Nil, Nil)
            /\ UNCHANGED queries
    /\ UNCHANGED <<agent, marketingAgent, monitors, allocs, sdkCalls, optimizing, process,
                   decisions>>
    /\ UNCHANGED <<provider, conversationHistory, wallet, controllerProgram,
                   isRunning, config, buybackConfig, checkInterval, timers, ticks, started>>

\* the request of a decideMarketing call resolves or fails
MarketingQueryResolves(ok) ==
    /\ queries > 0
    /\ queries' = queries - 1
    /\ out' = CallOutput("marketingReply", <<>>,
                         IF ok THEN "none" ELSE "LLM request failed")
    /\ UNCHANGED <<agent, marketingAgent, monitors, allocs, sdkCalls, optimizing, process,
                   decisions>>
    /\ UNCHANGED <<provider, conversationHistory, wallet, controllerProgram,
                   isRunning, config, buybackConfig, checkInterval, timers, ticks, started>>

----------------------------------------------------------------------------
(* Public calls on the MarketingAgent, its timer and the steps of one       *)
(* invocation of analyzeAndAllocate                                         *)

\* the output of a step of analyzeAndAllocate: log is every request the
\* invocation has issued so far, in order
MarketingOutput(op, reply, decision, log, tk) ==
    [op |-> op, reply |-> reply, decision |-> decision, calls |-> tk.calls,
     request |-> tk.request, error |-> tk.error,
     thrown |-> CatchMarketing(tk), pc |-> tk.pc,
     allocations |-> tk.allocations, i |-> tk.i, log |-> log \o tk.calls]

\* an invocation of analyzeAndAllocate as it waits in flight
WaitingAlloc(tk, log) ==
    [pc |-> tk.pc, allocations |-> tk.allocations, i |-> tk.i,
     log |-> log \o tk.calls]

RunningAlloc(w) ==
    [pc |-> w.pc, op |-> "none", allocations |-> w.allocations, i |-> w.i,
     calls |-> <<>>, request |-> Nil, error |-> "none"]

BeganAlloc(name, tk) ==
    /\ out' = MarketingOutput(name, Nil, Nil, <<>>, tk)
    /\ allocs' = IF InFlight(tk)
                 THEN allocs (+) SetToBag({WaitingAlloc(tk, <<>>)})
                 ELSE allocs

RanAlloc(name, reply, decision, w, tk) ==
    /\ out' = MarketingOutput(name, reply, decision, w.log, tk)
    /\ allocs' = IF InFlight(tk)
                 THEN (allocs (-) SetToBag({w}))
                          (+) SetToBag({WaitingAlloc(tk, w.log)})
                 ELSE allocs (-) SetToBag({w})

MarketingUnchanged ==
    UNCHANGED <<agent, provider, conversationHistory, wallet,
                controllerProgram, isRunning, config, buybackConfig,
                checkInterval, timers, ticks, started, queries, decisions, sdkCalls, optimizing,
                process>>

\* setInterval returns a handle that no live timer has
setMonitorInterval ==
    CHOOSE h \in 1..(Cardinality(monitors) + 1) : h \notin monitors

StartMarketing(c) ==
    /\ IF MarketingAlreadyRunning
       THEN /\ out' = CallOutput("startMarketing", <<>>,
                                 "Marketing agent already running")
            /\ UNCHANGED <<marketingAgent, monitors, allocs>>
       ELSE /\ BagCardinality(allocs) + BagCardinality(optimizing) < MaxTicks
            /\ marketingAgent' = [config |-> Some(c), isRunning |-> TRUE,
                                  monitorInterval |-> setMonitorInterval]
            /\ monitors' = monitors \cup {setMonitorInterval}
            /\ BeganAlloc("startMarketing", analyzeAndAllocate(Some(c)))
    /\ MarketingUnchanged

\* a stopMarketing that clears the timer and leaves the flag set
StopMarketing_KeepsFlag ==
    /\ monitors' = IF marketingAgent.monitorInterval # NoTimer
                   THEN monitors \ {marketingAgent.monitorInterval}
                   ELSE monitors
    /\ marketingAgent' = [marketingAgent EXCEPT !.monitorInterval = NoTimer]
    /\ out' = CallOutput("stopMarketing", <<>>, "none")
    /\ UNCHANGED allocs
    /\ MarketingUnchanged

StopMarketing ==
    /\ monitors' = IF marketingAgent.monitorInterval # NoTimer
                   THEN monitors \ {marketingAgent.monitorInterval}
                   ELSE monitors
    /\ marketingAgent' = [marketingAgent EXCEPT !.monitorInterval = NoTimer,
                                                !.isRunning = FALSE]
    /\ out' = CallOutput("stopMarketing", <<>>, "none")
    /\ UNCHANGED allocs
    /\ MarketingUnchanged

\* the callback of setInterval
MonitorFire(tm) ==
    /\ tm \in monitors
    /\ BagCardinality(allocs) + BagCardinality(optimizing) < MaxTicks
    /\ BeganAlloc("monitor", analyzeAndAllocate(marketingAgent.config))
    /\ UNCHANGED <<marketingAgent, monitors>>
    /\ MarketingUnchanged

\* the reports getPerformanceReport can return: the ROI of each campaign
Reports == {<<>>, <<1>>, <<5, 1>>}

\* the rest of the model but the agent's calls of optimizeCampaigns
OptimizeUnchanged ==
    UNCHANGED <<agent, provider, conversationHistory, wallet,
                controllerProgram, isRunning, config, buybackConfig,
                checkInterval, timers, ticks, started, queries, decisions,
                sdkCalls, process, marketingAgent, monitors>>

\* optimizeCampaigns up to the await in getPerformanceReport
OptimizeCampaigns ==
    /\ BagCardinality(allocs) + BagCardinality(optimizing) < MaxTicks
    /\ optimizing' = optimizing (+) SetToBag({[pc |-> "report",
                                                campaigns |-> <<>>, i |-> 0]})
    /\ out' = CallOutput("optimizeCampaigns", <<"GET report">>, "none")
    /\ UNCHANGED allocs
    /\ OptimizeUnchanged

\* the campaigns from i on that optimizeCampaigns pauses: campaign.roi <
\* this.config.minROI
LowROI(campaigns, i) ==
    {k \in i..Len(campaigns) :
         campaigns[k] < marketingAgent.config[1].minROI}

Min(S) == CHOOSE k \in S : \A j \in S : k <= j

\* the loop of optimizeCampaigns from campaign i on, up to its next await
\* or to the error it throws: reading minROI of a null config throws a
\* TypeError, a campaign of low ROI is paused, and after the last campaign
\* analyzeAndAllocate is called
OptimizeLoop(campaigns, i) ==
    IF i > Len(campaigns)
    THEN [pc |-> "allocate", error |-> "none", i |-> i]
    ELSE IF marketingAgent.config = Nil
    THEN [pc |-> "done", error |-> "TypeError", i |-> i]
    ELSE IF LowROI(campaigns, i) # {}
    THEN [pc |-> "pause", error |-> "none", i |-> Min(LowROI(campaigns, i))]
    ELSE [pc |-> "allocate", error |-> "none", i |-> Len(campaigns) + 1]

\* optimizeCampaigns has run from campaign i on to its next await
Optimized(name, w, campaigns, i) ==
    LET next == OptimizeLoop(campaigns, i)
    IN CASE next.pc = "allocate" ->
                /\ optimizing' = optimizing (-) SetToBag({w})
                /\ BeganAlloc(name, analyzeAndAllocate(marketingAgent.config))
         [] next.pc = "pause" ->
                /\ optimizing' = (optimizing (-) SetToBag({w}))
                       (+) SetToBag({[pc |-> "pause", campaigns |-> campaigns,
                                      i |-> next.i]})
                /\ out' = CallOutput(name, <<"POST pause">>, "none")
                /\ UNCHANGED allocs
         [] OTHER ->
                /\ optimizing' = optimizing (-) SetToBag({w})
                /\ out' = CallOutput(name, <<>>, next.error)
                /\ UNCHANGED allocs

\* the report request resolves with the campaigns, or it fails and
\* optimizeCampaigns throws
ReportResolves(w, ok, campaigns) ==
    /\ w.pc = "report"
    /\ IF ok THEN Optimized("report", w, campaigns, 1)
       ELSE /\ optimizing' = optimizing (-) SetToBag({w})
            /\ out' = CallOutput("report", <<>>, "Request failed")
            /\ UNCHANGED allocs
    /\ OptimizeUnchanged

\* the POST of pauseCampaign resolves, or it fails and optimizeCampaigns
\* throws
PauseResolves(w, ok) ==
    /\ w.pc = "pause"
    /\ IF ok THEN Optimized("pause", w, w.campaigns, w.i + 1)
       ELSE /\ optimizing' = optimizing (-) SetToBag({w})
            /\ out' = CallOutput("pause", <<>>, "Request failed")
            /\ UNCHANGED allocs
    /\ OptimizeUnchanged

\* the metrics request resolves with the platform data, or it fails (the
\* request, response.json() or calculateMetrics on a missing platform);
\* decideMarketing builds the prompt and calls queryLLM
MetricsResolve(w, ok) ==
    /\ w.pc = "metrics"
    /\ RanAlloc("metrics", Nil, Nil, w,
                IF ok THEN queryLLM(Called(RunningAlloc(w), "decideMarketing"),
                                    Messages(Some(MarketingPrompt),
                                             conversationHistory))
                ELSE Throw(RunningAlloc(w), "Metrics request failed"))
    /\ UNCHANGED <<marketingAgent, monitors>>
    /\ MarketingUnchanged

\* the provider replies with text; decideMarketing parses it;
\* analyzeAndAllocate runs on to its next await or to its end
AllocationReplies(w, text) ==
    /\ w.pc = "llm"
    /\ RanAlloc("allocation", Some(text), Some(parseMarketingResponse(text)),
                w, AfterMarketingDecision(RunningAlloc(w),
                                          parseMarketingResponse(text)))
    /\ UNCHANGED <<marketingAgent, monitors>>
    /\ MarketingUnchanged

AllocationFails(w) ==
    /\ w.pc = "llm"
    /\ RanAlloc("allocation", Nil, Nil, w,
                Throw(RunningAlloc(w), "LLM request failed"))
    /\ UNCHANGED <<marketingAgent, monitors>>
    /\ MarketingUnchanged

\* an executeAllocation whose failure is caught per entry: the loop goes on
AllocatePostResolves_Independent(w, ok) ==
    /\ w.pc = "allocate"
    /\ RanAlloc("allocate", Nil, Nil, w,
                [AllocationLoop([RunningAlloc(w) EXCEPT !.i = @ + 1])
                     EXCEPT !.error = IF ok THEN "none" ELSE "Request failed"])
    /\ UNCHANGED <<marketingAgent, monitors>>
    /\ MarketingUnchanged

\* the POST of executeAllocation resolves with a response of any status (the
\* response is not looked at), or the request fails and fetch rejects
AllocatePostResolves(w, ok) ==
    /\ w.pc = "allocate"
    /\ RanAlloc("allocate", Nil, Nil, w,
                IF ok THEN AllocationLoop([RunningAlloc(w) EXCEPT !.i = @ + 1])
                ELSE Throw(RunningAlloc(w), "Request failed"))
    /\ UNCHANGED <<marketingAgent, monitors>>
    /\ MarketingUnchanged

\* the POST of trackPerformance resolves, or the request fails
TrackResolves(w, ok) ==
    /\ w.pc = "track"
    /\ RanAlloc("track", Nil, Nil, w,
                IF ok THEN Finish(RunningAlloc(w))
                ELSE Throw(RunningAlloc(w), "Request failed"))
    /\ UNCHANGED <<marketingAgent, monitors>>
    /\ MarketingUnchanged

----------------------------------------------------------------------------
(* Direct calls on the MayhemSDK, as examples/buyback-burn-bot.ts makes *)

\* the output of a step of a direct call: what the call returned, if it did
SdkOutput(op, step, params, result, tk) ==
    [op |-> op, step |-> step, params |-> params, reply |-> Nil,
     decision |-> Nil, calls |-> tk.calls, error |-> tk.error,
     thrown |-> tk.error, pc |-> tk.pc, result |-> result,
     traded |-> IF op = "sdk.buybackAndBurn" /\ Has(tk.calls, "trade:buy")
                THEN Some(BuybackTrade(params)) ELSE Nil]

\* a direct call as it waits for its transaction
SdkWaiting(api, params, tk) ==
    [api |-> api, params |-> params, pc |-> tk.pc, op |-> tk.op]

SdkRunning(w) ==
    [pc |-> w.pc, op |-> w.op, calls |-> <<>>, error |-> "none"]

SdkUnchanged ==
    UNCHANGED <<agent, provider, conversationHistory, wallet,
                controllerProgram, isRunning, config, buybackConfig,
                checkInterval, timers, ticks, started, queries, decisions,
                marketingAgent, monitors, allocs, optimizing, process>>

\* a call of trade, buybackAndBurn, collectFees or addLiquidityFromFees up to
\* its sendTransaction, or to the error it throws before
SdkCall(api, params) ==
    LET new == [pc |-> "done", op |-> "none", calls |-> <<>>,
                error |-> "none"]
        tk == CASE api = "sdk.trade" ->
                       trade(new, IF params.side = "buy" THEN "trade:buy"
                                  ELSE "trade:sell", "trade")
                 [] api = "sdk.buybackAndBurn" -> buybackAndBurn(new)
                 [] api = "sdk.collectFees" -> collectFees(new)
                 [] OTHER -> addLiquidityFromFees(new)
    IN /\ BagCardinality(sdkCalls) < MaxQueries
       /\ out' = SdkOutput(api, "call", params, Nil, tk)
       /\ sdkCalls' = IF InFlight(tk)
                      THEN sdkCalls (+) SetToBag({SdkWaiting(api, params, tk)})
                      ELSE sdkCalls
       /\ SdkUnchanged

\* sendTransaction and confirmTransaction of a direct call resolve, or one of
\* them fails; the call runs on to its next transaction or returns
SdkTransactionResolves(w, ok) ==
    LET tk == IF ~ok THEN Throw(SdkRunning(w), "Transaction failed")
              ELSE IF w.api = "sdk.buybackAndBurn" /\ w.op = "buyback"
              THEN AfterBuybackTrade(SdkRunning(w), w.params.burnPercentage)
              ELSE Finish(SdkRunning(w))
        result == IF ~ok \/ InFlight(tk) THEN Nil
                  ELSE IF w.api = "sdk.collectFees" THEN Some(CollectedFees)
                  ELSE IF w.api = "sdk.buybackAndBurn"
                  THEN Some(Signature("buyback"))
                  ELSE Some(Signature(w.op))
    IN /\ w.pc = "tx"
       /\ ok => wallet
       /\ out' = SdkOutput(w.api, "resolve", w.params, result, tk)
       /\ sdkCalls' = IF InFlight(tk)
                      THEN (sdkCalls (-) SetToBag({w}))
                               (+) SetToBag({SdkWaiting(w.api, w.params, tk)})
                      ELSE sdkCalls (-) SetToBag({w})
       /\ SdkUnchanged

----------------------------------------------------------------------------
(* The example scripts: main, the scheduled jobs and the SIGINT handler *)

\* the output of a step of the script: the timers and jobs that are live
\* when it calls sdk.disconnect, and the exit code if the process has exited
ScriptOutput(op, calls, error, live, exitCode) ==
    [op |-> op, reply |-> Nil, decision |-> Nil, calls |-> calls,
     error |-> error, thrown |-> error, pc |-> "none", live |-> live,
     exitCode |-> exitCode]

\* process.exit, or the end of a process with nothing left to run
Exit(code) ==
    /\ process' = Exited(code)
    /\ timers' = {}
    /\ ticks' = EmptyBag
    /\ sdkCalls' = EmptyBag

\* sdk.initialize fails (a getAccountInfo fails, or the Mayhem program is not
\* on the network): main rejects, and the catch attached to main() runs
InitializeFails ==
    /\ process.pc = "initialize"
    /\ out' = ScriptOutput("main", <<>>, "Initialize failed", {},
                           MainFailed(agent))
    /\ Exit(MainFailed(agent))
    /\ UNCHANGED <<agent, provider, conversationHistory, wallet,
                   controllerProgram, isRunning, config, buybackConfig,
                   checkInterval, started, queries, decisions, marketingAgent, monitors,
                   allocs, optimizing>>

\* sdk.initialize returns in basic-trader: main creates the agent and calls
\* startTrading
BasicTraderMain ==
    /\ process.pc = "initialize"
    /\ StartTrading(BasicTraderConfig)

\* sdk.initialize returns in buyback-burn-bot: main creates the agent,
\* enables the buyback, schedules the daily job and registers its handlers
BuybackBotMain ==
    /\ process.pc = "initialize"
    /\ buybackConfig' = Some(BuybackBotConfig)
    /\ process' = [process EXCEPT !.pc = "running", !.jobs = {"cron"}]
    /\ out' = CallOutput("main", <<"enableBuybackBurn", "cron.schedule">>,
                         "none")
    /\ UNCHANGED <<agent, provider, conversationHistory, wallet,
                   controllerProgram, isRunning, config, checkInterval,
                   timers, ticks, started, queries, decisions, marketingAgent, monitors,
                   allocs, sdkCalls, optimizing>>

\* the status interval of basic-trader
StatusFire ==
    /\ "status" \in process.jobs
    /\ GetStatus

\* the daily job of buyback-burn-bot up to the transaction of collectFees;
\* the amount collectFees returns is below 0.01, so the job returns when
\* the call does, and its catch logs the error when the call fails
CronJob ==
    /\ "cron" \in process.jobs
    /\ SdkCall("sdk.collectFees", Nil)

\* the SIGINT handler of basic-trader: stopTrading, disconnect, exit(0)
BasicTraderSigint ==
    LET stopped == IF checkInterval # NoTimer
                   THEN clearInterval(checkInterval)
                   ELSE timers
    IN /\ process.pc = "running"
       /\ checkInterval' = NoTimer
       /\ isRunning' = FALSE
       /\ out' = ScriptOutput("SIGINT",
                              <<"stopTrading", "disconnect", "process.exit">>,
                              "none",
                              {"tick" : tm \in stopped} \cup process.jobs, 0)
       /\ Exit(0)
       /\ UNCHANGED <<agent, provider, conversationHistory, wallet,
                      controllerProgram, config, buybackConfig, started,
                      queries, decisions, marketingAgent, monitors, allocs,
                      optimizing>>

\* the SIGINT handler of buyback-burn-bot: disconnect, exit(0)
BuybackBotSigint ==
    /\ process.pc = "running"
    /\ out' = ScriptOutput("SIGINT", <<"disconnect", "process.exit">>, "none",
                           {"tick" : tm \in timers} \cup process.jobs, 0)
    /\ Exit(0)
    /\ UNCHANGED <<agent, provider, conversationHistory, wallet,
                   controllerProgram, isRunning, config, buybackConfig,
                   checkInterval, started, queries, decisions, marketingAgent, monitors,
                   allocs, optimizing>>

Next ==
    \/ agent = "TradingAgent" /\ \E c \in Configs : StartTrading(c)
    \/ agent = "TradingAgent" /\ StopTrading
    \/ agent = "TradingAgent" /\ \E b \in BuybackConfigs : EnableBuybackBurn(b)
    \/ agent = "TradingAgent" /\ GetStatus
    \/ \E tm \in timers : TimerFire(tm)
    \/ \E w \in BagToSet(ticks), ok \in BOOLEAN : MarketDataResolves(w, ok)
    \/ \E w \in BagToSet(ticks), text \in Replies : LLMReplies(w, text)
    \/ \E w \in BagToSet(ticks) : LLMFails(w)
    \/ \E w \in BagToSet(ticks), ok \in BOOLEAN : TransactionResolves(w, ok)
    \/ agent \in {"none", "connector"} /\ DecideMarketing
    \/ agent = "connector" /\ DecideTrade
    \/ agent = "connector" /\ \E text \in Replies : DecideTradeReplies(text)
    \/ agent = "connector" /\ DecideTradeFails
    \/ \E ok \in BOOLEAN : MarketingQueryResolves(ok)
    \/ agent = "MarketingAgent" /\ \E c \in MarketingConfigs : StartMarketing(c)
    \/ agent = "MarketingAgent" /\ StopMarketing
    \/ \E tm \in monitors : MonitorFire(tm)
    \/ agent = "MarketingAgent" /\ OptimizeCampaigns
    \/ \E w \in BagToSet(optimizing), ok \in BOOLEAN, campaigns \in Reports :
           ReportResolves(w, ok, campaigns)
    \/ \E w \in BagToSet(optimizing), ok \in BOOLEAN : PauseResolves(w, ok)
    \/ \E w \in BagToSet(allocs), ok \in BOOLEAN : MetricsResolve(w, ok)
    \/ \E w \in BagToSet(allocs), text \in MarketingReplies :
           AllocationReplies(w, text)
    \/ \E w \in BagToSet(allocs) : AllocationFails(w)
    \/ \E w \in BagToSet(allocs), ok \in BOOLEAN : AllocatePostResolves(w, ok)
    \/ \E w \in BagToSet(allocs), ok \in BOOLEAN : TrackResolves(w, ok)
    \/ agent = "none" /\ \E side \in {"buy", "sell"} :
           SdkCall("sdk.trade", [side |-> side])
    \/ agent = "none" /\ \E params \in BuybackParams :
           SdkCall("sdk.buybackAndBurn", params)
    \/ agent = "none" /\ SdkCall("sdk.collectFees", Nil)
    \/ agent = "none" /\ SdkCall("sdk.addLiquidityFromFees", Nil)
    \/ \E w \in BagToSet(sdkCalls), ok \in BOOLEAN :
           SdkTransactionResolves(w, ok)
    \/ agent \in Scripts /\ InitializeFails
    \/ agent = "basic-trader" /\ BasicTraderMain
    \/ agent = "basic-trader" /\ StatusFire
    \/ agent = "basic-trader" /\ BasicTraderSigint
    \/ agent = "buyback-burn-bot" /\ BuybackBotMain
    \/ agent = "buyback-burn-bot" /\ CronJob
    \/ agent = "buyback-burn-bot" /\ BuybackBotSigint

Spec == Init /\ [][Next]_vars

----------------------------------------------------------------------------
(* Properties *)

\* the calls executeDecision makes for a decision
ExecutionCalls == {"trade:buy", "trade:sell", "executeBurn",
                   "addLiquidityFromFees"}

NoExecutionCall(calls) == \A k \in 1..Len(calls) : calls[k] \notin ExecutionCalls

\* the step received a reply from the provider
GotReply == out.op = "llm" /\ out.reply # Nil

\* C1: a startTrading call on a Running agent fails with 'Agent already
\* running' and creates no timer: while the agent is Running exactly one
\* interval timer is live, no step calls setInterval, and the rejected call
\* leaves the agent Running with the same timer.
C1_SecondStartRejected ==
    [][isRunning =>
          /\ Cardinality(timers) = 1
          /\ timers' \subseteq timers
          /\ (out'.op = "startTrading" /\ out' # out) =>
                 /\ out'.error = "Agent already running"
                 /\ isRunning'
                 /\ timers' = timers
                 /\ checkInterval' = checkInterval
                 /\ config' = config
                 /\ started' = started]_vars

C1_Witness ==
    /\ isRunning
    /\ out.op = "startTrading"
    /\ out.error = "Agent already running"
    /\ Cardinality(timers) = 1

\* C2: stopTrading on an agent that was never started raises no error and
\* changes nothing: no timer before or after, isRunning false, config null,
\* the buyback configuration and the rest of the state as they were.
C2_StopBeforeStartIsNoOp ==
    [][(started = 0 /\ out'.op = "stopTrading" /\ out' # out) =>
          /\ out'.error = "none"
          /\ timers = {} /\ timers' = {}
          /\ checkInterval' = NoTimer
          /\ ~isRunning'
          /\ config' = Nil
          /\ buybackConfig' = buybackConfig
          /\ ticks' = ticks
          /\ started' = started]_vars

C2_Witness ==
    /\ started = 0
    /\ out.op = "stopTrading"
    /\ buybackConfig # Nil
    /\ ~isRunning /\ config = Nil /\ timers = {}

\* C3: when the decision's confidence is not strictly greater than 0.7
\* (0.65, exactly 0.7, or no number at all), the step that receives the
\* decision makes no execution call, whatever the action.
C3_LowConfidenceNoExecution ==
    (GotReply /\ ~JSGreater(out.decision[1].confidence, ConfidenceThreshold))
        => NoExecutionCall(out.calls)

C3_Witness ==
    /\ GotReply
    /\ out.decision[1].action = Str("buy")
    /\ out.decision[1].confidence = Num(ConfidenceThreshold)
    /\ Truthy(out.decision[1].amount)
    /\ NoExecutionCall(out.calls)

\* the buyback configuration is enabled and the snapshot price is below its
\* trigger price
BuybackDue ==
    /\ buybackConfig # Nil
    /\ Truthy(buybackConfig[1].enabled)
    /\ Truthy(buybackConfig[1].triggerPrice)
    /\ MockPrice < buybackConfig[1].triggerPrice.v

\* the step is the one in which the execution of the decision is over: the
\* step that received the decision, unless it awaits an execution call, or
\* the step in which the transaction of the execution call resolved
ExecutionOver ==
    \/ GotReply /\ ~(out.pc = "tx" /\ ~Has(out.calls, "collectFees"))
    \/ out.op \in {"trade", "addLiquidity"}

\* C4 as stated: whenever the buyback is due, fee collection is initiated
\* once the execution of the decision is over, whatever the decision was
\* and whatever its execution did.
C4_FeeCollectionWhateverExecutionDid ==
    (BuybackDue /\ ExecutionOver) => Has(out.calls, "collectFees")

\* C4 amended: whenever the buyback is due, fee collection is initiated once
\* the execution of the decision is over without an error, whatever the
\* action and the confidence of the decision.
C4_FeeCollectionAfterExecution ==
    (BuybackDue /\ ExecutionOver /\ out.error = "none")
        => Has(out.calls, "collectFees") /\ out.pc = "tx"

C4_Witness ==
    /\ BuybackDue
    /\ out.op = "trade"
    /\ out.error = "none"
    /\ Has(out.calls, "collectFees")

\* C5: for a reply that is not valid JSON the parser returns exactly
\* {action: hold, confidence: 0.5, reasoning: the raw text} with no amount;
\* the step raises no error of the parser: it makes no execution call and
\* goes on to the buyback check.
C5_InvalidJsonFallsBackToHold ==
    (GotReply /\ ~ValidJSON(out.reply[1])) =>
        /\ out.decision[1] = [action |-> Str("hold"), amount |-> Undef,
                              reasoning |-> Str(out.reply[1]),
                              confidence |-> Num(50)]
        /\ NoExecutionCall(out.calls)
        /\ out.error # "none" => Has(out.calls, "collectFees")
        /\ BuybackDue => Has(out.calls, "collectFees")

C5_Witness ==
    /\ GotReply
    /\ ~ValidJSON(out.reply[1])
    /\ out.decision[1].reasoning = Str(out.reply[1])
    /\ out.error = "none"

\* the reply is a JSON object with a confidence field
HasConfidence(text) ==
    /\ ValidJSON(text)
    /\ JSONParse(text).value.t = "object"
    /\ "confidence" \in DOMAIN JSONParse(text).value.f

\* C6: for a reply that is valid JSON with a confidence field the parser
\* returns the confidence and the action of the reply unchanged, also a
\* confidence outside [0,1] and an action outside the allowed set; a
\* confidence above 1 passes the gate, so that a buy, sell or add_lp with an
\* amount is executed.
C6_ConfidenceNotClamped ==
    (GotReply /\ HasConfidence(out.reply[1])) =>
        LET o == JSONParse(out.reply[1]).value.f IN
        /\ out.decision[1].confidence = o.confidence
        /\ out.decision[1].action = o.action
        /\ (o.confidence.v > 100 /\ o.action = Str("sell") /\ o.amount.v # 0)
               => Has(out.calls, "trade:sell")

C6_Witness ==
    /\ GotReply
    /\ HasConfidence(out.reply[1])
    /\ out.decision[1].confidence.v > 100
    /\ Has(out.calls, "trade:sell")
    /\ Has(out.calls, "sendTransaction")

\* C7: with a provider outside the supported set the connector never issues
\* a request, no invocation ever waits for a reply, and every decideTrade and
\* decideMarketing call fails with the unsupported-provider error.
C7_UnsupportedProviderFails ==
    provider \notin Providers =>
        /\ queries = 0
        /\ \A w \in BagToSet(ticks) : w.pc # "llm"
        /\ ~Has(out.calls, "fetch")
        /\ (Has(out.calls, "decideTrade") \/ out.op = "decideMarketing")
               => out.error = "Unsupported provider"

C7_Witness ==
    /\ provider \notin Providers
    /\ Has(out.calls, "decideTrade")
    /\ out.error = "Unsupported provider"
    /\ ~Has(out.calls, "fetch")

\* the timer fires and its invocation of analyzeAndTrade joins the ones in
\* flight
TimerStartsInvocation ==
    \E tm \in timers :
        /\ TimerFire(tm)
        /\ BagCardinality(ticks') = BagCardinality(ticks) + 1
        /\ \A w \in BagToSet(ticks) : CopiesIn(w, ticks') >= CopiesIn(w, ticks)

\* C8: the driver has no in-flight guard: while the timer is live, a timer
\* callback can start an invocation of analyzeAndTrade however many are in
\* flight, and it leaves those in flight as they are.
C8_TicksOverlap ==
    (timers # {} /\ started < MaxTicks) => ENABLED TimerStartsInvocation

C8_Witness ==
    /\ out.op = "timer"
    /\ BagCardinality(ticks) >= 2
    /\ \E w \in BagToSet(ticks) : w.pc = "llm"
    /\ \E w \in BagToSet(ticks) : w.pc = "marketData"

\* C9: stopTrading clears the timer and sets the handle to null and isRunning
\* to false; while the agent is not Running the only step that starts an
\* invocation of analyzeAndTrade is a successful startTrading.
C9_NoTickAfterStop ==
    [][/\ (out'.op = "stopTrading" /\ out' # out) =>
              /\ timers' = {}
              /\ checkInterval' = NoTimer
              /\ ~isRunning'
       /\ (~isRunning /\ started' # started) =>
              /\ out'.op = "startTrading"
              /\ isRunning'
              /\ checkInterval' # NoTimer
              /\ timers' = {checkInterval'}]_vars

C9_Witness ==
    /\ out.op = "stopTrading"
    /\ started > 0
    /\ started < MaxTicks
    /\ ~isRunning /\ timers = {} /\ checkInterval = NoTimer

\* C10: stopTrading leaves the invocations in flight as they are, and an
\* invocation that waits for its reply can receive it while the agent is not
\* Running: it then runs on and can submit a transaction after the stop.
C10_StopKeepsInFlightTicks ==
    /\ [][(out'.op = "stopTrading" /\ out' # out) => ticks' = ticks]_vars
    /\ [](~isRunning =>
             \A w \in BagToSet(ticks) :
                 w.pc = "llm" =>
                     ENABLED (\E text \in Replies : LLMReplies(w, text)))

C10_Witness ==
    /\ ~isRunning
    /\ GotReply
    /\ Has(out.calls, "trade:buy")
    /\ Has(out.calls, "sendTransaction")
    /\ out.pc = "tx"

----------------------------------------------------------------------------
(* Error handling of the loop drivers *)

\* the steps that run an invocation of analyzeAndTrade on
TradingTickSteps ==
    {"marketData", "llm", "trade", "addLiquidity", "collectFees", "buyback"}

\* the steps that run an invocation of analyzeAndAllocate on
MarketingTickSteps == {"metrics", "allocation", "allocate", "track"}

\* the steps that start an invocation
TickStarts == {"startTrading", "timer", "startMarketing", "monitor"}

\* C11: no step of a trading or marketing tick throws to its caller,
\* whatever failed in it, and such a step leaves isRunning, the timer handle,
\* the timer and the configuration of both drivers as they were; a start
\* call that begins its initial tick does not throw either.
C11_TickFailuresContained ==
    [][/\ out'.op \in TradingTickSteps \cup MarketingTickSteps =>
              /\ out'.thrown = "none"
              /\ isRunning' = isRunning
              /\ checkInterval' = checkInterval
              /\ timers' = timers
              /\ config' = config
              /\ marketingAgent' = marketingAgent
              /\ monitors' = monitors
       /\ (out'.op \in TickStarts /\ out'.pc # "none") =>
              out'.thrown = "none"]_vars

C11_Witness ==
    /\ isRunning
    /\ out.op = "llm"
    /\ out.error = "LLM request failed"
    /\ out.thrown = "none"
    /\ out.pc = "done"
    /\ checkInterval \in timers

\* C12 as stated: in a tick where the buyback is due, fee collection is
\* initiated once the execution of the decision is over without an error,
\* and when the fees have been collected the same step calls
\* sdk.buybackAndBurn.
C12_BuybackFollowsFeeCollection ==
    /\ (BuybackDue /\ ExecutionOver /\ out.error = "none")
           => Has(out.calls, "collectFees")
    /\ (out.op = "collectFees" /\ out.error = "none")
           => Has(out.calls, "buybackAndBurn")

\* C13: the MarketingAgent has the two states of the TradingAgent: while it
\* is Running exactly one timer is live; startMarketing on a Running agent
\* fails with 'Marketing agent already running' and leaves the config, the
\* handle, the timers and the invocations as they were; stopMarketing throws
\* nothing, clears the timer, nulls the handle and makes the agent Idle, and
\* on an agent that was never started it changes nothing.
C13_MarketingTwoStates ==
    [][/\ marketingAgent.isRunning =>
              /\ monitors = {marketingAgent.monitorInterval}
              /\ monitors' \subseteq monitors
       /\ (marketingAgent.isRunning /\ out'.op = "startMarketing") =>
              /\ out'.thrown = "Marketing agent already running"
              /\ marketingAgent' = marketingAgent
              /\ monitors' = monitors
              /\ allocs' = allocs
       /\ out'.op = "stopMarketing" =>
              /\ out'.thrown = "none"
              /\ ~marketingAgent'.isRunning
              /\ marketingAgent'.monitorInterval = NoTimer
              /\ marketingAgent'.config = marketingAgent.config
              /\ monitors' = {}
              /\ allocs' = allocs
       /\ (marketingAgent.config = Nil /\ out'.op = "stopMarketing") =>
              /\ marketingAgent' = marketingAgent
              /\ monitors' = monitors]_vars

C13_Witness ==
    /\ marketingAgent.isRunning
    /\ out.op = "startMarketing"
    /\ out.thrown = "Marketing agent already running"
    /\ monitors = {marketingAgent.monitorInterval}
    /\ allocs # EmptyBag

\* the allocation POSTs for the entries of a list, in list order
PostsOf(allocations) ==
    [k \in 1..Len(allocations) |-> PostAllocate(allocations[k])]

\* the requests of a marketing tick up to its LLM request
MetricsThenLLM == <<"GET metrics", "decideMarketing", "fetch">>

\* the requests an invocation in flight must have issued, given where it is
IssuedSoFar(w) ==
    CASE w.pc = "metrics" -> <<"GET metrics">>
      [] w.pc = "llm" -> MetricsThenLLM
      [] w.pc = "allocate" ->
             MetricsThenLLM \o SubSeq(PostsOf(w.allocations), 1, w.i)
      [] OTHER ->
             MetricsThenLLM \o PostsOf(w.allocations) \o <<"POST track">>

\* C14: a marketing tick issues its requests one at a time in this order: the
\* metrics GET, the LLM request, one allocation POST per entry of
\* decision.allocations in list order, and after the last of them one
\* tracking POST; a tick in which every call succeeded has issued exactly
\* these.
C14_MarketingTickOrder ==
    /\ \A w \in BagToSet(allocs) : w.log = IssuedSoFar(w)
    /\ (out.op = "allocation" /\ out.pc # "done") =>
           out.allocations = Get(out.decision[1], "allocations").v
    /\ out.op \in {"allocation", "allocate"} => Len(out.calls) <= 1
    /\ (out.op = "track" /\ out.error = "none") =>
           out.log = MetricsThenLLM \o PostsOf(out.allocations)
                         \o <<"POST track">>

C14_Witness ==
    /\ out.op = "track"
    /\ out.error = "none"
    /\ out.pc = "done"
    /\ out.log = <<"GET metrics", "decideMarketing", "fetch",
                   "POST allocate twitter", "POST allocate discord",
                   "POST track">>

\* the step in which the allocation POST of an entry failed
AllocationPostFailed == out.op = "allocate" /\ out.error = "Request failed"

\* C15 as stated: when the POST of an entry fails and entries remain, the
\* POST of the next entry is issued all the same.
C15_PostsIndependent ==
    (AllocationPostFailed /\ out.i < Len(out.allocations))
        => Has(out.calls, PostAllocate(out.allocations[out.i + 1]))

\* C15 amended: when the POST of an entry fails (the request rejects), the
\* requests issued so far stay as they are, no request is issued to undo them
\* and the tick ends: neither the POSTs of the remaining entries nor the
\* tracking POST are issued; when the POST resolves, whatever its status, the
\* POST of the next entry or the tracking POST is issued.
C15_FailedPostEndsTick ==
    /\ AllocationPostFailed =>
           /\ out.calls = <<>>
           /\ out.pc = "done"
           /\ out.log = MetricsThenLLM
                            \o SubSeq(PostsOf(out.allocations), 1, out.i)
    /\ (out.op = "allocate" /\ out.error = "none") =>
           out.calls = IF out.i <= Len(out.allocations)
                       THEN <<PostAllocate(out.allocations[out.i])>>
                       ELSE <<"POST track">>

C15_Witness ==
    /\ AllocationPostFailed
    /\ out.i = 1
    /\ Len(out.allocations) = 2
    /\ out.pc = "done"
    /\ ~Has(out.log, "POST allocate discord")

----------------------------------------------------------------------------
(* The MayhemSDK facade *)

Sends == Has(out.calls, "sendTransaction")

\* C17: the facade's configuration checks come before any transaction: trade
\* without a wallet throws 'Wallet not initialized'; buybackAndBurn without a
\* wallet or without a controller program throws before it calls trade;
\* collectFees and addLiquidityFromFees without a controller program throw
\* 'Controller program not configured'; none of these steps sends a
\* transaction, called directly or from a tick.
C17_ConfigErrorsBeforeTransactions ==
    /\ (~wallet /\ (Has(out.calls, "trade:buy") \/ Has(out.calls, "trade:sell")))
           => out.error = "Wallet not initialized" /\ ~Sends
    /\ (~wallet /\ out.op = "sdk.trade" /\ out.step = "call")
           => out.thrown = "Wallet not initialized" /\ ~Sends
    /\ ((~wallet \/ ~controllerProgram) /\ Has(out.calls, "buybackAndBurn"))
           => /\ out.error = IF ~wallet THEN "Wallet not initialized"
                             ELSE "Controller program not configured"
              /\ ~Has(out.calls, "trade:buy")
              /\ ~Sends
    /\ (~controllerProgram /\ (Has(out.calls, "collectFees")
                                  \/ Has(out.calls, "addLiquidityFromFees")))
           => out.error = "Controller program not configured" /\ ~Sends
    /\ (out.op \in {"sdk.trade", "sdk.buybackAndBurn", "sdk.collectFees",
                    "sdk.addLiquidityFromFees"} /\ out.step = "call")
           => /\ out.thrown = out.error
              /\ out.error # "none" => (out.pc = "done" /\ ~Sends)

C17_Witness ==
    /\ ~controllerProgram
    /\ wallet
    /\ out.op = "sdk.collectFees"
    /\ out.thrown = "Controller program not configured"
    /\ out.calls = <<"collectFees">>

----------------------------------------------------------------------------
(* The trading configuration *)

\* C18: while the agent is Running no step changes the stored configuration:
\* not a tick, not enableBuybackBurn, not getStatus (which returns it), not a
\* startTrading that is rejected; a startTrading that succeeds stores a
\* configuration, and stopTrading itself leaves it stored.
C18_ConfigFixedWhileRunning ==
    [][/\ isRunning => (config # Nil /\ config' = config)
       /\ (out'.op = "startTrading" /\ out'.thrown = "none") =>
              (config' \in {Some(c) : c \in Configs} /\ isRunning')
       /\ out'.op = "getStatus" =>
              (out'.result.config = config /\ config' = config)]_vars

C18_Witness ==
    /\ isRunning
    /\ out.op = "getStatus"
    /\ out.result.config = config
    /\ out.result.buybackEnabled
    /\ started = MaxTicks
    /\ ticks # EmptyBag

----------------------------------------------------------------------------
(* The LLM gateway adapter *)

Count(calls, name) == Cardinality({k \in 1..Len(calls) : calls[k] = name})

\* the step invokes queryLLM: through decideTrade or decideMarketing in a
\* tick, or through a direct decideTrade or decideMarketing call
InvokesAdapter ==
    \/ Has(out.calls, "decideTrade")
    \/ Has(out.calls, "decideMarketing")
    \/ out.op \in {"decideTrade", "decideMarketing"}

\* C19: with a supported provider every invocation of the adapter issues
\* exactly one request, whatever was asked before (nothing is cached); a step
\* in which the request failed issues no request again: the failure goes to
\* the caller, which ends the tick or, for a direct call, receives the error.
C19_OneRequestPerInvocation ==
    /\ (provider \in Providers /\ InvokesAdapter) =>
           Count(out.calls, "fetch") = 1 /\ out.error = "none"
    /\ ~InvokesAdapter => Count(out.calls, "fetch") = 0
    /\ out.error = "LLM request failed" =>
           /\ out.calls = <<>>
           /\ out.op \in {"llm", "allocation"} => out.pc = "done"
           /\ out.op \in {"marketingReply", "tradeReply"} =>
                  out.thrown = "LLM request failed"

C19_Witness ==
    /\ provider \in Providers
    /\ Has(out.calls, "decideTrade")
    /\ Count(out.calls, "fetch") = 1
    /\ Len(conversationHistory) >= 4
    /\ started = 2

----------------------------------------------------------------------------
(* The loop under a failing dependency *)

\* the runtime runs the callback of a live interval timer again and again
TimerSpec == Spec /\ WF_vars(\E tm \in timers : TimerFire(tm))

\* a read of market data or the LLM request failed in the step
DependencyFailed ==
    \/ out.op = "marketData" /\ out.error = "RPC error"
    \/ out.op = "llm" /\ out.error = "LLM request failed"

----------------------------------------------------------------------------
(* The example scripts *)

\* C21 as stated: the SIGINT handler of a script has stopped the tick timer
\* of the agent and every scheduled job when it calls sdk.disconnect, and the
\* process exits with code 0; when main fails, the process exits with a code
\* that is not 0.
C21_ScriptsShutDownCleanly ==
    /\ out.op = "SIGINT" =>
           /\ out.live \cap {"tick", "cron"} = {}
           /\ out.exitCode = 0
           /\ process.pc = "exited"
    /\ (out.op = "main" /\ out.error # "none") =>
           /\ process.pc = "exited"
           /\ out.exitCode # 0

----------------------------------------------------------------------------
(* The two states of the loop drivers *)

\* the step is a stopTrading call, or a handler that calls stopTrading
StopsTrading == out.op = "stopTrading" \/ Has(out.calls, "stopTrading")

\* C22: between the operations of an agent, isRunning is true exactly when
\* the timer handle is not null, and the live interval timers of the agent
\* are the one of the handle when it is Running and none when it is Idle;
\* the flag and the handle change only in a start call that succeeds, from
\* Idle to Running, and in a stop call, to Idle.
C22_RunningIffTimer ==
    /\ [](/\ isRunning <=> checkInterval # NoTimer
          /\ timers = IF isRunning THEN {checkInterval} ELSE {}
          /\ marketingAgent.isRunning <=>
                 marketingAgent.monitorInterval # NoTimer
          /\ monitors = IF marketingAgent.isRunning
                        THEN {marketingAgent.monitorInterval} ELSE {})
    /\ [][/\ (isRunning' # isRunning \/ checkInterval' # checkInterval) =>
                 \/ /\ ~isRunning /\ isRunning'
                    /\ out'.op = "startTrading" /\ out'.thrown = "none"
                 \/ /\ isRunning /\ ~isRunning'
                    /\ StopsTrading'
          /\ (\/ marketingAgent'.isRunning # marketingAgent.isRunning
              \/ marketingAgent'.monitorInterval #
                     marketingAgent.monitorInterval) =>
                 \/ /\ ~marketingAgent.isRunning /\ marketingAgent'.isRunning
                    /\ out'.op = "startMarketing" /\ out'.thrown = "none"
                 \/ /\ marketingAgent.isRunning /\ ~marketingAgent'.isRunning
                    /\ out'.op = "stopMarketing"]_vars

C22_Witness ==
    /\ ~marketingAgent.isRunning
    /\ marketingAgent.monitorInterval = NoTimer
    /\ marketingAgent.config # Nil
    /\ monitors = {}
    /\ out.op \in MarketingTickSteps
    /\ out.error # "none"

----------------------------------------------------------------------------
(* The order of the steps of a trading tick *)

\* the steps of an invocation of analyzeAndTrade, its first included
TradingSteps == TradingTickSteps \cup {"timer", "startTrading"}

\* the calls that end in a transaction for an executed decision
ExecutionTransactions == {"trade:buy", "trade:sell", "addLiquidityFromFees"}

\* C23: the steps of one trading tick run in sequence. The first step only
\* starts the snapshot; the LLM request is issued in the step in which the
\* snapshot is complete; an execution call is made only in the step that
\* receives the decision, and it comes first there; fee collection is
\* called only when no execution transaction of the tick is pending: in the
\* step that receives the decision if that step dispatched no transaction,
\* or in the step in which the execution transaction has resolved; and
\* buybackAndBurn only when collectFees has returned. A step submits at most
\* one transaction and then waits for it, so that a tick has one transaction
\* in flight at most, although it may submit a trade and then a fee
\* collection.
C23_TickStepsInSequence ==
    out.op \in TradingSteps =>
        /\ out.op \in {"timer", "startTrading"} =>
               \A k \in 1..Len(out.calls) : out.calls[k] = "getTokenInfo"
        /\ Has(out.calls, "fetch") =>
               /\ out.op = "marketData"
               /\ out.calls = <<"decideTrade", "fetch">>
               /\ out.pc = "llm"
        /\ ~NoExecutionCall(out.calls) =>
               /\ GotReply
               /\ out.calls[1] \in ExecutionCalls
               /\ \A k \in 2..Len(out.calls) : out.calls[k] \notin ExecutionCalls
        /\ Has(out.calls, "collectFees") =>
               /\ out.op \in {"llm", "trade", "addLiquidity"}
               /\ \A k \in 1..Len(out.calls) :
                      out.calls[k] \notin ExecutionTransactions
        /\ Has(out.calls, "buybackAndBurn") => out.op = "collectFees"
        /\ Count(out.calls, "sendTransaction") <= 1
        /\ Has(out.calls, "sendTransaction") =>
               /\ out.calls[Len(out.calls)] = "sendTransaction"
               /\ out.pc = "tx"
        /\ out.pc = "tx" => Has(out.calls, "sendTransaction")

C23_Witness ==
    /\ out.op = "trade"
    /\ out.error = "none"
    /\ out.calls = <<"collectFees", "sendTransaction">>
    /\ out.pc = "tx"

----------------------------------------------------------------------------
(* The conditions of the buyback *)

\* the trigger price of the stored buyback configuration is a number, not 0,
\* and the price of the facade is strictly below it
PriceBelowTrigger ==
    /\ buybackConfig # Nil
    /\ Truthy(buybackConfig[1].triggerPrice)
    /\ MockPrice < buybackConfig[1].triggerPrice.v

\* C24: the price comparison of the buyback is a strict less-than. With the
\* buyback enabled, a step of a tick calls collectFees only if the trigger
\* price is present, not 0, and strictly above the snapshot price: with the
\* trigger price at the facade's price 0.0001, at 0, or left out, no step of
\* a tick initiates fee collection.
C24_StrictPriceComparison ==
    (out.op \in TradingSteps /\ ~PriceBelowTrigger)
        => ~Has(out.calls, "collectFees")

C24_Witness ==
    /\ GotReply
    /\ out.error = "none"
    /\ out.pc = "done"
    /\ buybackConfig # Nil
    /\ Truthy(buybackConfig[1].enabled)
    /\ buybackConfig[1].triggerPrice = Num(MockPrice)
    /\ ~Has(out.calls, "collectFees")

----------------------------------------------------------------------------
(* Transactions of overlapping ticks *)

\* the invocation that waits as w receives a confident buy decision and
\* submits the transaction of its trade
SubmitsTrade(w) ==
    /\ LLMReplies(w, "{\"action\":\"buy\",\"amount\":1,\"reasoning\":\"r\",\"confidence\":0.9}")
    /\ Has(out'.calls, "sendTransaction")
    /\ out'.pc = "tx"

\* the transactions of invocations of analyzeAndTrade that are pending
PendingTransactions ==
    LET tx == {w \in BagToSet(ticks) : w.pc = "tx"}
        Sum[S \in SUBSET tx] ==
            IF S = {} THEN 0
            ELSE LET w == CHOOSE x \in S : TRUE
                 IN CopiesIn(w, ticks) + Sum[S \ {w}]
    IN Sum[tx]

\* C25: transactions on the wallet are not serialized across ticks: an
\* invocation that waits for its decision submits the transaction of its
\* trade when the decision arrives, whatever transactions (of a trade, a fee
\* collection or a liquidity add) other invocations have pending.
C25_TransactionsNotSerialized ==
    \A w \in BagToSet(ticks) :
        (w.pc = "llm" /\ wallet /\ PendingTransactions > 0)
            => ENABLED SubmitsTrade(w)

C25_Witness ==
    /\ out.op = "llm"
    /\ out.pc = "tx"
    /\ Has(out.calls, "trade:buy")
    /\ PendingTransactions = 2
    /\ \E w \in BagToSet(ticks) : w.pc = "tx" /\ w.op = "collectFees"

----------------------------------------------------------------------------
(* A tick that fails *)

\* the calls on the SDK that may throw
ThrowingCalls == ExecutionTransactions \cup {"collectFees", "buybackAndBurn"}

\* C26: a trading tick is aborted at its first failing step: the step in
\* which something fails ends the invocation, and nothing is called in it
\* after the failure. When the snapshot fails, the step makes no call: no
\* LLM request, no execution call, no buyback check. When the LLM request
\* fails, the step makes no call either. When the execution of the decision
\* fails (the SDK call throws, or its transaction fails), collectFees is not
\* called, also with the buyback enabled and the price below the trigger.
C26_TickAbortsAtFirstFailure ==
    [][(out'.op \in TradingTickSteps /\ out'.error # "none") =>
          /\ out'.pc = "done"
          /\ started' = started
          /\ BagCardinality(ticks') = BagCardinality(ticks) - 1
          /\ out'.error \in {"RPC error", "LLM request failed",
                             "Transaction failed"} => out'.calls = <<>>
          /\ \A k \in 1..Len(out'.calls) :
                 out'.calls[k] \in ThrowingCalls => k = Len(out'.calls)
          /\ (\/ /\ out'.op \in {"trade", "addLiquidity"}
                 /\ out'.error = "Transaction failed"
              \/ \E k \in 1..Len(out'.calls) :
                     out'.calls[k] \in ExecutionTransactions) =>
                 ~Has(out'.calls, "collectFees")]_vars

C26_Witness ==
    /\ out.op = "trade"
    /\ out.error = "Transaction failed"
    /\ out.pc = "done"
    /\ out.calls = <<>>
    /\ buybackConfig # Nil
    /\ Truthy(buybackConfig[1].enabled)
    /\ PriceBelowTrigger
    /\ controllerProgram

----------------------------------------------------------------------------
(* Replies that cannot be decoded *)

\* JSON.parse throws on the reply, or returns null, whose properties cannot
\* be read
Undecodable(text) == ~ValidJSON(text) \/ JSONParse(text).value = Null

\* C27: a reply that cannot be decoded leads to no execution call. The
\* decision is the fallback, hold with confidence 0.5, which does not pass
\* the gate of 0.7; the step that receives it calls nothing but the buyback
\* check: collectFees when the buyback is enabled and the price is below the
\* trigger, and nothing otherwise.
C27_UndecodableReplyNoExecution ==
    (GotReply /\ Undecodable(out.reply[1])) =>
        /\ out.decision[1].action = Str("hold")
        /\ out.decision[1].confidence = Num(50)
        /\ ~(50 > ConfidenceThreshold)
        /\ NoExecutionCall(out.calls)
        /\ out.calls =
               IF buybackConfig # Nil /\ Truthy(buybackConfig[1].enabled)
                  /\ PriceBelowTrigger
               THEN IF controllerProgram
                    THEN <<"collectFees", "sendTransaction">>
                    ELSE <<"collectFees">>
               ELSE <<>>

C27_Witness ==
    /\ GotReply
    /\ out.reply[1] = "null"
    /\ out.decision[1].reasoning = Str("null")
    /\ out.calls = <<"collectFees", "sendTransaction">>
    /\ out.pc = "tx"

----------------------------------------------------------------------------
(* The dispatch of a decision *)

\* the step received a decision that passes the gate
Dispatched == GotReply /\ ConfidenceGate(out.decision[1])

\* the decision has the action and an amount that is present and not 0
Orders(action) ==
    /\ out.decision[1].action = Str(action)
    /\ out.decision[1].amount.t = "number"
    /\ out.decision[1].amount.v # 0

\* C28: for a decision with confidence above 0.7, executeDecision calls the
\* SDK only for buy (sdk.trade, side buy, slippage 0.01), sell (sdk.trade,
\* side sell, slippage 0.01) and add_lp (sdk.addLiquidityFromFees), each with
\* the amount of the decision, and only when that amount is present and not
\* 0. For hold, burn, an action outside the set, and an amount that is
\* missing or 0, no SDK call is made for the decision and the dispatch
\* raises no error: the step goes on to the buyback check.
C28_DispatchByAction ==
    Dispatched =>
        /\ Orders("buy") =>
               /\ out.calls[1] = "trade:buy"
               /\ out.args = Some([side |-> "buy", slippage |-> 1,
                                   amount |-> out.decision[1].amount.v])
        /\ Orders("sell") =>
               /\ out.calls[1] = "trade:sell"
               /\ out.args = Some([side |-> "sell", slippage |-> 1,
                                   amount |-> out.decision[1].amount.v])
        /\ Orders("add_lp") =>
               /\ out.calls[1] = "addLiquidityFromFees"
               /\ out.args = Some([amount |-> out.decision[1].amount.v])
        /\ ~(Orders("buy") \/ Orders("sell") \/ Orders("add_lp")) =>
               /\ out.args = Nil
               /\ \A k \in 1..Len(out.calls) :
                      out.calls[k] \in {"executeBurn", "collectFees",
                                        "sendTransaction"}
               /\ out.error # "none" =>
                      out.calls[Len(out.calls)] = "collectFees"
               /\ (out.error = "none" /\ out.pc = "tx") =>
                      Has(out.calls, "collectFees")

C28_Witness ==
    /\ Dispatched
    /\ out.decision[1].action = Str("sell")
    /\ out.decision[1].amount = Undef
    /\ out.calls = <<>>
    /\ out.error = "none"
    /\ out.pc = "done"

----------------------------------------------------------------------------
(* The buyback of the trading loop *)

BuybackEnabled == buybackConfig # Nil /\ Truthy(buybackConfig[1].enabled)

CallsDecideTrade(o) ==
    \/ o.op = "decideTrade"
    \/ o.op = "marketData" /\ Has(o.calls, "decideTrade")

\* the steps in which decideTrade receives the provider's reply
DecideTradeReturns(o) == o.op \in {"llm", "tradeReply"} /\ o.reply # Nil

SystemEntries(history) ==
    {k \in 1..Len(history) : history[k].role = "system"}

\* C31: the history starts with the system message and holds no other system
\* entry; no step shortens it or changes an entry it holds; a decideTrade call
\* appends the user prompt when it is made and the assistant reply when the
\* provider has replied, and nothing else appends: a successful decideTrade
\* has appended exactly two entries, the prompt before the reply, and nothing
\* ever removes them.
C31_HistoryGrowsFromSystemMessage ==
    /\ [](/\ Len(conversationHistory) >= 1
          /\ conversationHistory[1] = SystemMessage
          /\ SystemEntries(conversationHistory) = {1})
    /\ [][/\ Len(conversationHistory') >= Len(conversationHistory)
          /\ SubSeq(conversationHistory', 1, Len(conversationHistory))
                 = conversationHistory
          /\ CallsDecideTrade(out') =>
                 conversationHistory' =
                     Append(conversationHistory, UserMessage(TradingPrompt))
          /\ DecideTradeReturns(out') =>
                 /\ conversationHistory' =
                        Append(conversationHistory, AssistantMessage)
                 /\ \E k \in 2..Len(conversationHistory) :
                        conversationHistory[k] = UserMessage(TradingPrompt)
          /\ (~CallsDecideTrade(out') /\ ~DecideTradeReturns(out')) =>
                 UNCHANGED conversationHistory]_vars

\* two decideTrade calls have returned, of invocations of analyzeAndTrade
C31_Witness ==
    /\ agent = "TradingAgent"
    /\ DecideTradeReturns(out)
    /\ conversationHistory =
           <<SystemMessage, UserMessage(TradingPrompt), AssistantMessage,
             UserMessage(TradingPrompt), AssistantMessage>>

\* no decideTrade call is waiting for the provider
NoDecideTradeInFlight ==
    /\ decisions = 0
    /\ \A w \in BagToSet(ticks) : w.pc # "llm"

\* after the system message the entries alternate: user, assistant, ...
Alternates(history) ==
    /\ Len(history) % 2 = 1
    /\ \A k \in 2..Len(history) :
           history[k].role = IF k % 2 = 0 THEN "user" ELSE "assistant"

\* the step in which a decideTrade call fails
DecideTradeFailed(o) ==
    \/ CallsDecideTrade(o) /\ o.error = "Unsupported provider"
    \/ o.op \in {"llm", "tradeReply"} /\ o.error = "LLM request failed"

\* C32: whenever no decideTrade call is waiting for its reply, every user entry
\* of the history is followed at once by an assistant entry, whatever calls
\* failed or overlapped before; and a decideTrade call that fails leaves the
\* history as it was when the call was made: the history holds no prompt
\* that is the last entry or is followed by another prompt.
C32_HistoryAlternates ==
    /\ [](NoDecideTradeInFlight => Alternates(conversationHistory))
    /\ [][DecideTradeFailed(out') =>
              \A k \in 2..Len(conversationHistory') :
                  conversationHistory'[k].role = "user" =>
                      /\ k < Len(conversationHistory')
                      /\ conversationHistory'[k + 1].role = "assistant"]_vars

\* the steps that run decideMarketing up to its request: of an invocation of
\* analyzeAndAllocate, or of a call the program makes on the connector
CallsDecideMarketing(o) ==
    \/ o.op = "decideMarketing"
    \/ o.op = "metrics" /\ Has(o.calls, "decideMarketing")

\* the steps in which a decideMarketing call returns or throws at its await
DecideMarketingEnds(o) == o.op \in {"marketingReply", "allocation"}

\* C33: decideMarketing leaves the conversation history as it is, when it is
\* called and when it returns or fails; the messages it posts are the one user
\* entry that carries the marketing prompt: no system message, no entry of
\* the history, whatever trading turns the history holds.
C33_MarketingQueriesBypassHistory ==
    [][/\ (CallsDecideMarketing(out') \/ DecideMarketingEnds(out')) =>
              UNCHANGED conversationHistory
       /\ (CallsDecideMarketing(out') /\ out'.request # Nil) =>
              out'.request[1].messages = <<UserMessage(MarketingPrompt)>>]_vars

\* a decideMarketing request on a connector whose history holds a trading turn
C33_Witness ==
    /\ out.op = "decideMarketing"
    /\ out.request # Nil
    /\ out.request[1].messages = <<UserMessage(MarketingPrompt)>>
    /\ Len(conversationHistory) >= 3
    /\ conversationHistory[2] = UserMessage(TradingPrompt)
    /\ conversationHistory[3] = AssistantMessage

\* the allocation POSTs among the requests of a log
AllocationPosts(log) ==
    {k \in 1..Len(log) :
         log[k] \in {"POST allocate", "POST allocate twitter",
                     "POST allocate discord"}}

\* the step in which a marketing tick received a reply that is no JSON
InvalidMarketingReply ==
    out.op = "allocation" /\ out.reply # Nil /\ ~ValidJSON(out.reply[1])

\* C34: when the marketing reply is not valid JSON, the parser returns an
\* object with an empty allocations list and the raw text as reasoning, and
\* nothing is thrown; the tick goes straight to its tracking POST, whose body
\* carries the empty list; up to and after that POST the tick has issued no
\* allocation POST and exactly one tracking POST.
C34_InvalidMarketingReplyTracksNothing ==
    /\ InvalidMarketingReply =>
           /\ out.decision = Some(Obj([allocations |-> Arr(<<>>),
                                       reasoning |-> Str(out.reply[1])]))
           /\ out.error = "none"
           /\ out.calls = <<"POST track">>
           /\ out.request = Some(TrackBody(<<>>))
           /\ out.pc = "track"
           /\ AllocationPosts(out.log) = {}
           /\ Count(out.log, "POST track") = 1
    /\ (out.op = "track" /\ out.allocations = <<>>) =>
           /\ AllocationPosts(out.log) = {}
           /\ Count(out.log, "POST track") = 1
           /\ out.calls = <<>>
           /\ out.pc = "done"

C34_Witness ==
    /\ InvalidMarketingReply
    /\ out.reply = Some("Spend it all on twitter")
    /\ out.calls = <<"POST track">>
    /\ out.request = Some(TrackBody(<<>>))

\* C35: with an SDK constructed without a wallet no facade operation reaches
\* sendTransaction: trade, buybackAndBurn, collectFees and
\* addLiquidityFromFees, called directly or from a tick, each throw before
\* it, and no call ever waits for a transaction.
C35_NoTransactionWithoutWallet ==
    ~wallet =>
        /\ ~Has(out.calls, "sendTransaction")
        /\ \A w \in BagToSet(sdkCalls) : w.pc # "tx"
        /\ \A w \in BagToSet(ticks) : w.pc # "tx"

\* a step that starts an allocation pass: analyzeAndAllocate gets past its
\* configuration check and requests the metrics
StartsAllocationPass(o) == Has(o.calls, "GET metrics")

\* C36: an allocation pass starts only on a MarketingAgent that is Running:
\* once stopMarketing has made the agent Idle no operation of the agent,
\* optimizeCampaigns included, starts a pass; an agent that was never
\* started has no pass in flight and issues no allocation POST.
C36_AllocationOnlyWhileRunning ==
    /\ [][StartsAllocationPass(out') => marketingAgent'.isRunning]_vars
    /\ [](marketingAgent.config = Nil =>
              /\ allocs = EmptyBag
              /\ AllocationPosts(out.calls) = {})

\* a step that posts a request to the provider
PostsToProvider ==
    (CallsDecideTrade(out) \/ CallsDecideMarketing(out)) /\ out.request # Nil

\* the messages queryLLM was given in that step: the history as decideTrade
\* left it, or the marketing prompt alone
Given ==
    IF CallsDecideTrade(out) THEN conversationHistory
    ELSE <<UserMessage(MarketingPrompt)>>

\* C37: the body posted to anthropic separates the roles: its messages are
\* the entries given that are no system entry, in the order given, and none
\* of them is a system entry; its system field is the content of the first
\* system entry given, and is absent when none was given. The body posted to
\* any other provider carries the messages as given and has no system field.
C37_AnthropicSeparatesRoles ==
    PostsToProvider =>
        LET body == out.request[1] IN
        IF provider = "anthropic"
        THEN /\ body.messages =
                    SelectSeq(Given, LAMBDA m : m.role \in {"user", "assistant"})
             /\ \A k \in 1..Len(body.messages) :
                    body.messages[k].role # "system"
             /\ Len(body.messages) =
                    Len(Given) - Cardinality(SystemEntries(Given))
             /\ IF SystemEntries(Given) = {}
                THEN "system" \notin DOMAIN body
                ELSE /\ "system" \in DOMAIN body
                     /\ body.system = Str(Given[Min(SystemEntries(Given))].content)
        ELSE /\ body.messages = Given
             /\ "system" \notin DOMAIN body

\* the second decideTrade request of a connector for anthropic
C37_Witness ==
    /\ provider = "anthropic"
    /\ out.op = "decideTrade"
    /\ out.request # Nil
    /\ Len(conversationHistory) = 4
    /\ out.request[1].messages = Tail(conversationHistory)
    /\ out.request[1].system = Str("systemPrompt")

====
